---------------------------- MODULE Spec2Model ----------------------------
(***************************************************************************)
(* A model of the chatbot editor: the flow graph kept by App.vue, the     *)
(* editing handlers of App.vue / Canvas.vue / PropertiesPanel.vue, the    *)
(* expression helpers of utils/interpolation.ts and the preview           *)
(* interpreter of PreviewPanel.vue.                                       *)
(*                                                                         *)
(* Representation.  A JavaScript string is a sequence of one-character    *)
(* strings (<<"H","i">> is "Hi"); undefined / '' for an id is the empty   *)
(* string "" (the code only ever tests ids for truthiness).  A value of a *)
(* Variable is a tagged record (JsNull, JsStr, JsNum, JsNaN, JsInfinity,   *)
(* JsUndefined).  The                                                      *)
(* warning sign that addErrorMessage puts before its text is written      *)
(* "(!)".                                                                  *)
(***************************************************************************)
EXTENDS Integers, Sequences, FiniteSets, TLC

VARIABLES
  blocks,            \* App.vue: blocks (props.blocks of Canvas and PreviewPanel)
  connections,       \* App.vue: connections
  variables,         \* App.vue: variables (props.variables of PreviewPanel)
  selectedBlockId,   \* App.vue: selectedBlockId
  contextMenuBlockId,\* App.vue: contextMenuBlockId
  copiedBlock,       \* App.vue: the item copiedBlock of localStorage (<<>>: none)
  connectingFrom,    \* Canvas.vue: connectingFrom
  now,               \* the clock read by Date.now()
  messages,          \* PreviewPanel: messages
  currentBlockId,    \* PreviewPanel: currentBlockId
  isWaitingForInput, \* PreviewPanel: isWaitingForInput
  currentChoices,    \* PreviewPanel: currentChoices
  sessionVariables,  \* PreviewPanel: sessionVariables
  isRunning,         \* PreviewPanel: isRunning
  timers,            \* the setTimeout callbacks that are pending
  lastOp             \* history: the handler of the preview panel that ran last

appVars     == <<blocks, connections, variables, selectedBlockId, contextMenuBlockId,
                 copiedBlock>>
canvasVars  == <<connectingFrom>>
previewVars == <<messages, currentBlockId, isWaitingForInput, currentChoices,
                 sessionVariables, isRunning, timers>>
vars == <<blocks, connections, variables, selectedBlockId, contextMenuBlockId, copiedBlock,
          connectingFrom, now, messages, currentBlockId, isWaitingForInput,
          currentChoices, sessionVariables, isRunning, timers, lastOp>>

(***************************************************************************)
(* Bounds of the model.                                                    *)
(***************************************************************************)
MaxMessages == 6   \* handlers that append are not taken beyond this transcript length
MaxEditorBlocks == 2  \* EditorSpec, ClipboardSpec: no block is added beyond this many
MaxGraphBlocks == 3   \* GraphSpec: no block is added beyond this many
MaxClock == 1      \* the clock stops advancing here
MaxOutputs == 1    \* addChoice / addCondition are not taken beyond this many entries

(***************************************************************************)
(* JavaScript values.                                                      *)
(***************************************************************************)
JsNull   == [k |-> "null", s |-> <<>>, n |-> 0]
JsUndefined == [k |-> "undefined", s |-> <<>>, n |-> 0]
JsNaN    == [k |-> "nan",  s |-> <<>>, n |-> 0]
JsStr(s) == [k |-> "str",  s |-> s,    n |-> 0]
JsNum(n) == [k |-> "num",  s |-> <<>>, n |-> n]
\* Infinity (sign 1) and -Infinity (sign -1)
JsInfinity(sign) == [k |-> "inf", s |-> <<>>, n |-> sign]

Digits == <<"0", "1", "2", "3", "4", "5", "6", "7", "8", "9">>
DigitChars == {Digits[i] : i \in 1..10}
LowerChars == {"a","b","c","d","e","f","g","h","i","j","k","l","m",
               "n","o","p","q","r","s","t","u","v","w","x","y","z"}
UpperChars == {"A","B","C","D","E","F","G","H","I","J","K","L","M",
               "N","O","P","Q","R","S","T","U","V","W","X","Y","Z"}
\* the regular expression class \w
WordChars == LowerChars \cup UpperChars \cup DigitChars \cup {"_"}
\* the white space String.prototype.trim and Number() strip
SpaceChars == {" "}

DigitValue(c) == CHOOSE i \in 0..9 : Digits[i + 1] = c

RECURSIVE TrimStart(_)
TrimStart(s) ==
  IF s # <<>> /\ Head(s) \in SpaceChars THEN TrimStart(Tail(s)) ELSE s

RECURSIVE TrimEnd(_)
TrimEnd(s) ==
  IF s # <<>> /\ s[Len(s)] \in SpaceChars
  THEN TrimEnd(SubSeq(s, 1, Len(s) - 1)) ELSE s

\* String.prototype.trim
Trim(s) == TrimEnd(TrimStart(s))

RECURSIVE DigitsToNat(_)
DigitsToNat(s) ==
  IF s = <<>> THEN 0
  ELSE 10 * DigitsToNat(SubSeq(s, 1, Len(s) - 1)) + DigitValue(s[Len(s)])

AllDigits(s) == s # <<>> /\ \A i \in 1..Len(s) : s[i] \in DigitChars

(* Number(string): white space is stripped, the empty string is 0, an     *)
(* optionally signed run of decimal digits is that integer, anything else *)
(* is that infinity, anything else is NaN.  (The texts of the model hold   *)
(* no ".", "e", "x", "o" or "b", so fractions, exponents and radix        *)
(* prefixes do not arise.)                                                 *)
InfinityText == <<"I", "n", "f", "i", "n", "i", "t", "y">>

StringToNumber(s) ==
  LET t == Trim(s) IN
    IF t = <<>> THEN JsNum(0)
    ELSE IF t = InfinityText \/ t = <<"+">> \o InfinityText THEN JsInfinity(1)
    ELSE IF t = <<"-">> \o InfinityText THEN JsInfinity(-1)
    ELSE IF AllDigits(t) THEN JsNum(DigitsToNat(t))
    ELSE IF Head(t) = "-" /\ AllDigits(Tail(t)) THEN JsNum(0 - DigitsToNat(Tail(t)))
    ELSE IF Head(t) = "+" /\ AllDigits(Tail(t)) THEN JsNum(DigitsToNat(Tail(t)))
    ELSE JsNaN

\* Number(v)
ToNumber(v) ==
  CASE v.k = "str"  -> StringToNumber(v.s)
    [] v.k = "num"  -> v
    [] v.k = "inf"  -> v
    [] v.k = "null" -> JsNum(0)
    [] OTHER        -> JsNaN

RECURSIVE NatToDigits(_)
NatToDigits(n) ==
  IF n < 10 THEN <<Digits[n + 1]>>
  ELSE NatToDigits(n \div 10) \o <<Digits[(n % 10) + 1]>>

\* String(v)
ToStringJs(v) ==
  CASE v.k = "str"  -> v.s
    [] v.k = "num"  -> IF v.n < 0 THEN <<"-">> \o NatToDigits(0 - v.n)
                       ELSE NatToDigits(v.n)
    [] v.k = "inf"  -> IF v.n < 0 THEN <<"-">> \o InfinityText ELSE InfinityText
    [] v.k = "null" -> <<"n","u","l","l">>
    [] v.k = "undefined" -> <<"u","n","d","e","f","i","n","e","d">>
    [] OTHER        -> <<"N","a","N">>

\* every value taken for truthy: Number(input) || 0 never gives the 0
Truthy_Any(v) == TRUE

\* v is truthy
Truthy(v) ==
  CASE v.k = "str" -> v.s # <<>>
    [] v.k = "num" -> v.n # 0
    [] v.k = "inf" -> TRUE
    [] OTHER       -> FALSE

\* a === b
StrictEquals(a, b) ==
  /\ a.k = b.k
  /\ a.k # "nan"
  /\ a.s = b.s
  /\ a.n = b.n

\* the order of the characters the model uses, by UTF-16 code unit
CharOrder == <<" ", "+", "-", "0", "1", "2", "3", "4", "5", "6", "7", "8", "9", "?",
               "A", "B", "C", "D", "H", "Q", "_", "a", "b", "d", "m", "n", "{", "}">>
CharCode(c) == IF \E i \in 1..Len(CharOrder) : CharOrder[i] = c
               THEN CHOOSE i \in 1..Len(CharOrder) : CharOrder[i] = c
               ELSE 0

RECURSIVE StringLess(_, _)
StringLess(a, b) ==
  IF b = <<>> THEN FALSE
  ELSE IF a = <<>> THEN TRUE
  ELSE IF Head(a) = Head(b) THEN StringLess(Tail(a), Tail(b))
  ELSE CharCode(Head(a)) < CharCode(Head(b))

\* x < y for two numbers, NaN being less than nothing and nothing less than NaN
NumberLess(x, y) ==
  CASE x.k = "num" /\ y.k = "num" -> x.n < y.n
    [] x.k = "inf" /\ y.k = "inf" -> x.n < y.n
    [] x.k = "inf" /\ y.k = "num" -> x.n < 0
    [] x.k = "num" /\ y.k = "inf" -> y.n > 0
    [] OTHER                      -> FALSE

\* a < b: two strings compare by code units, anything else as numbers
LessThan(a, b) ==
  IF a.k = "str" /\ b.k = "str" THEN StringLess(a.s, b.s)
  ELSE NumberLess(ToNumber(a), ToNumber(b))

\* a <= b (in JavaScript: not (b < a), unless an operand is NaN)
LessOrEqual(a, b) ==
  IF a.k = "str" /\ b.k = "str" THEN ~StringLess(b.s, a.s)
  ELSE LET x == ToNumber(a)
           y == ToNumber(b)
       IN NumberLess(x, y) \/ (x.k \in {"num", "inf"} /\ x = y)


(***************************************************************************)
(* utils/interpolation.ts                                                  *)
(***************************************************************************)
\* names that every plain object inherits from Object.prototype
ObjectPrototypeKeys ==
  {<<"c","o","n","s","t","r","u","c","t","o","r">>,
   <<"t","o","S","t","r","i","n","g">>,
   <<"v","a","l","u","e","O","f">>}

\* what reading .name, .type and .value of an inherited member gives: undefined
PrototypeMember == [name |-> <<>>, type |-> "", value |-> JsUndefined]

\* variables[name] is truthy: an own property (a Variable) or an inherited member
HasVariable(store, name) == name \in DOMAIN store \/ name \in ObjectPrototypeKeys

\* variables[name], for a name with HasVariable
Lookup(store, name) ==
  IF name \in DOMAIN store THEN store[name] ELSE PrototypeMember

\* the last index of the run of \w characters that starts at i (i - 1: no run)
RECURSIVE WordRunEnd(_, _)
WordRunEnd(text, i) ==
  IF i <= Len(text) /\ text[i] \in WordChars THEN WordRunEnd(text, i + 1) ELSE i - 1

\* /\{\{(\w+)\}\}/ matches at i: the index of the last character of the match, or 0
MatchEnd(text, i) ==
  IF i + 1 <= Len(text) /\ text[i] = "{" /\ text[i + 1] = "{"
  THEN LET j == WordRunEnd(text, i + 2) IN
         IF /\ j >= i + 2
            /\ j + 2 <= Len(text)
            /\ text[j + 1] = "}"
            /\ text[j + 2] = "}"
         THEN j + 2 ELSE 0
  ELSE 0

\* a replacer that drops the braces of a placeholder it does not resolve
Replacement_Bare(match, varName, store) ==
  IF HasVariable(store, varName) /\ Lookup(store, varName).value.k # "null"
  THEN ToStringJs(Lookup(store, varName).value)
  ELSE varName

\* the replacer callback of interpolateText
Replacement(match, varName, store) ==
  IF HasVariable(store, varName) /\ Lookup(store, varName).value.k # "null"
  THEN ToStringJs(Lookup(store, varName).value)
  ELSE match

\* text.replace(/\{\{(\w+)\}\}/g, ...) from index i on: one pass, left to right,
\* the replacement is not scanned again
RECURSIVE ReplaceFrom(_, _, _)
ReplaceFrom(text, store, i) ==
  IF i > Len(text) THEN <<>>
  ELSE LET e == MatchEnd(text, i) IN
         IF e = 0 THEN <<text[i]>> \o ReplaceFrom(text, store, i + 1)
         ELSE Replacement(SubSeq(text, i, e), SubSeq(text, i + 2, e - 2), store)
                \o ReplaceFrom(text, store, e + 1)

interpolateText(text, store) == ReplaceFrom(text, store, 1)

evaluateCondition(variableName, operator, value, store) ==
  IF ~HasVariable(store, variableName) \/ Lookup(store, variableName).value.k = "null"
  THEN FALSE
  ELSE LET variable     == Lookup(store, variableName)
           varValue     == IF variable.type = "number"
                           THEN ToNumber(variable.value) ELSE variable.value
           compareValue == IF variable.type = "number"
                           THEN ToNumber(value) ELSE value
       IN CASE operator = "==" -> StrictEquals(varValue, compareValue)
            [] operator = "!=" -> ~StrictEquals(varValue, compareValue)
            [] operator = ">"  -> LessThan(compareValue, varValue)
            [] operator = "<"  -> LessThan(varValue, compareValue)
            [] operator = ">=" -> LessOrEqual(compareValue, varValue)
            [] operator = "<=" -> LessOrEqual(varValue, compareValue)
            [] OTHER           -> FALSE

(***************************************************************************)
(* types/chatbot.ts: the records of the flow graph.                        *)
(* hasChoices / hasConditions tell an absent list (undefined) from an      *)
(* empty one; imageData and imageUrl are the two image sources.            *)
(***************************************************************************)
BlockTypes == {"message", "openQuestion", "choiceQuestion", "condition",
               "setVariable", "math", "image", "end"}

Choice(id, label, nextBlockId) ==
  [id |-> id, label |-> label, nextBlockId |-> nextBlockId]

Condition(id, variableName, operator, value, nextBlockId) ==
  [id |-> id, variableName |-> variableName, operator |-> operator,
   value |-> value, nextBlockId |-> nextBlockId]

Block(id, type, content, nextBlockId) ==
  [id |-> id, type |-> type, content |-> content,
   hasChoices |-> FALSE, choices |-> <<>>,
   hasConditions |-> FALSE, conditions |-> <<>>,
   variableName |-> <<>>, variableValue |-> <<>>,
   mathOperation |-> <<>>, mathValue |-> <<>>,
   imageUrl |-> <<>>, imageData |-> <<>>,
   nextBlockId |-> nextBlockId]

Variable(name, type, value) == [name |-> name, type |-> type, value |-> value]

Connection(id, fromBlockId, fromOutputId, toBlockId) ==
  [id |-> id, fromBlockId |-> fromBlockId, fromOutputId |-> fromOutputId,
   toBlockId |-> toBlockId]

ChatMessage(type, content) == [type |-> type, content |-> content]

BlockIds(bs) == {bs[i].id : i \in 1..Len(bs)}

\* bs.find(b => b.id === id), for an id that is in bs: the first such block
FindBlock(bs, id) ==
  bs[CHOOSE i \in 1..Len(bs) : bs[i].id = id /\ \A j \in 1..(i - 1) : bs[j].id # id]

(***************************************************************************)
(* PreviewPanel.vue.  The handlers are functions of the panel's state p:   *)
(* the refs of the component, the variables prop with the updates the      *)
(* panel emits (App.vue assigns them at once), the pending timers and the  *)
(* ids of the blocks processBlock was called with (path, history).         *)
(***************************************************************************)
WarningSign == <<"(!)", " ">>
ErrNoBlocks      == <<"Nenhum bloco encontrado. Crie blocos no canvas para comecar.">>
ErrBlockNotFound == <<"(Erro de fluxo: bloco nao encontrado)">>
ErrMissingTarget == <<"(Erro de fluxo: bloco de destino nao encontrado)">>
ErrNoChoices     == <<"(Erro: pergunta sem opcoes de escolha)">>
ErrNoCondition   == <<"(Nenhuma condicao satisfeita)">>
ErrNoImage       == <<"(Erro: imagem nao definida)">>
ErrChoiceNoTarget == <<"(Erro: escolha sem destino definido)">>

\* a setTimeout callback: the closure of processBlock's cases message, setVariable
\* and image ("advance", over the block being processed) or the closure of
\* handleSendMessage / handleChoiceClick ("process", over the block found)
Timer(kind, block) == [kind |-> kind, block |-> block]

\* addBotMessage reading the variables prop instead of the session
addBotMessage_Shared(p, content) ==
  [p EXCEPT !.messages =
     Append(@, ChatMessage("bot", interpolateText(content, p.variables)))]

\* addBotMessage that interpolates the entries of the transcript again
addBotMessage_Again(p, content) ==
  [p EXCEPT !.messages =
     Append([i \in 1..Len(@) |->
               IF @[i].type = "bot"
               THEN [@[i] EXCEPT !.content = interpolateText(@, p.sessionVariables)]
               ELSE @[i]],
            ChatMessage("bot", interpolateText(content, p.sessionVariables)))]

addBotMessage(p, content) ==
  [p EXCEPT !.messages =
     Append(@, ChatMessage("bot", interpolateText(content, p.sessionVariables)))]

\* addUserMessage that puts the entry before the others
addUserMessage_Front(p, content) ==
  [p EXCEPT !.messages = <<ChatMessage("user", content)>> \o @]

addUserMessage(p, content) ==
  [p EXCEPT !.messages = Append(@, ChatMessage("user", content))]

addErrorMessage(p, content) ==
  [p EXCEPT !.messages = Append(@, ChatMessage("bot", WarningSign \o content))]

addImageMessage(p, imageUrl) ==
  [p EXCEPT !.messages = Append(@, ChatMessage("image", imageUrl))]

\* endChat that drops the session's variables
endChat_Clear(p) ==
  [p EXCEPT !.isWaitingForInput = FALSE,
            !.currentChoices = <<>>,
            !.isRunning = FALSE,
            !.sessionVariables = <<>>]

endChat(p) ==
  [p EXCEPT !.isWaitingForInput = FALSE,
            !.currentChoices = <<>>,
            !.isRunning = FALSE]

\* the object spread { ...props.variables } with every key of the session for
\* which updated[key] is truthy set to (a copy of) the session's Variable
syncVariablesToParent(p) ==
  LET copied == {key \in DOMAIN p.sessionVariables : HasVariable(p.variables, key)} IN
  [p EXCEPT !.variables =
     [key \in DOMAIN p.variables \cup copied |->
        IF key \in copied THEN p.sessionVariables[key] ELSE p.variables[key]]]

\* the loop without its break: the last condition that evaluateCondition accepts
RECURSIVE FirstSatisfied_NoBreak(_, _, _)
FirstSatisfied_NoBreak(conditions, store, i) ==
  IF i > Len(conditions) THEN 0
  ELSE LET later == FirstSatisfied_NoBreak(conditions, store, i + 1) IN
         IF later # 0 THEN later
         ELSE IF evaluateCondition(conditions[i].variableName, conditions[i].operator,
                                   JsStr(conditions[i].value), store)
              THEN i ELSE 0

\* the first condition of the list that evaluateCondition accepts: its index, or 0
RECURSIVE FirstSatisfied(_, _, _)
FirstSatisfied(conditions, store, i) ==
  IF i > Len(conditions) THEN 0
  ELSE IF evaluateCondition(conditions[i].variableName, conditions[i].operator,
                            JsStr(conditions[i].value), store)
       THEN i
       ELSE FirstSatisfied(conditions, store, i + 1)

\* the loop falling through to the last condition when none is accepted
ConditionNext_FallThrough(block, store) ==
  IF ~block.hasConditions \/ Len(block.conditions) = 0 THEN ""
  ELSE LET i == FirstSatisfied(block.conditions, store, 1) IN
         IF i = 0 THEN block.conditions[Len(block.conditions)].nextBlockId
         ELSE block.conditions[i].nextBlockId

\* the for loop of case 'condition': nextBlockId when the loop ends
ConditionNext(block, store) ==
  IF ~block.hasConditions THEN ""
  ELSE LET i == FirstSatisfied(block.conditions, store, 1) IN
         IF i = 0 THEN "" ELSE block.conditions[i].nextBlockId

\* setTimeout(callback, delay): the callback is pending
setTimeout(p, t) == [p EXCEPT !.timers = @ \cup {t}]

\* processBlock, case 'message'
processMessage(p, block) ==
  setTimeout(addBotMessage(p, block.content), Timer("advance", block))

\* case 'openQuestion' that goes on after a delay, like case 'message', while it
\* waits for the answer
processOpenQuestion_Timed(p, block) ==
  setTimeout([addBotMessage(p, block.content)
                EXCEPT !.isWaitingForInput = TRUE, !.currentChoices = <<>>],
             Timer("advance", block))

\* processBlock, case 'openQuestion'
processOpenQuestion(p, block) ==
  [addBotMessage(p, block.content)
     EXCEPT !.isWaitingForInput = TRUE, !.currentChoices = <<>>]

\* case 'choiceQuestion' without the test for an empty list of choices
processChoiceQuestion_NoCheck(p, block) ==
  [addBotMessage(p, block.content)
     EXCEPT !.currentChoices = block.choices, !.isWaitingForInput = FALSE]

\* processBlock, case 'choiceQuestion'
processChoiceQuestion(p, block) ==
  LET p1 == addBotMessage(p, block.content) IN
    IF block.hasChoices /\ Len(block.choices) > 0
    THEN [p1 EXCEPT !.currentChoices = block.choices, !.isWaitingForInput = FALSE]
    ELSE endChat(addErrorMessage(p1, ErrNoChoices))

\* processBlock, case 'setVariable'.  (For an inherited member the assignment
\* lands on the member, not on the session: the graphs of the model bind no
\* setVariable block to such a name.)
processSetVariable(p, block) ==
  LET p1 == IF block.variableName # <<>>
               /\ HasVariable(p.sessionVariables, block.variableName)
            THEN syncVariablesToParent(
                   IF block.variableName \in DOMAIN p.sessionVariables
                   THEN [p EXCEPT !.sessionVariables[block.variableName].value =
                           JsStr(interpolateText(block.variableValue, p.sessionVariables))]
                   ELSE p)
            ELSE p
  IN setTimeout(p1, Timer("advance", block))

\* case 'image' ending the run when the block has no image
processImage_EndOnMissing(p, block) ==
  LET imageUrl == IF block.imageData # <<>> THEN block.imageData ELSE block.imageUrl IN
    IF imageUrl # <<>>
    THEN setTimeout(addImageMessage(p, imageUrl), Timer("advance", block))
    ELSE endChat(addErrorMessage(p, ErrNoImage))

\* processBlock, case 'image'
processImage(p, block) ==
  LET imageUrl == IF block.imageData # <<>> THEN block.imageData ELSE block.imageUrl
      p1 == IF imageUrl # <<>> THEN addImageMessage(p, imageUrl)
            ELSE addErrorMessage(p, ErrNoImage)
  IN setTimeout(p1, Timer("advance", block))

\* case 'end' going on to nextBlockId as case 'message' does
processEnd_Follow(p, block) == processMessage(p, block)

\* processBlock, case 'end'
processEnd(p, block) ==
  endChat(IF block.content # <<>> THEN addBotMessage(p, block.content) ELSE p)

\* processBlock(block) with the graph bs.  Case 'condition' calls processBlock
\* again at once; fuel bounds that recursion (a cycle of condition blocks never
\* returns in the code: the graphs of the model hold none).  A block of another
\* type (math) matches no case.
RECURSIVE processBlock(_, _, _, _)
processBlock(p0, bs, block, fuel) ==
  LET p == [p0 EXCEPT !.path = Append(@, block.id)] IN
  CASE block.type = "message"        -> processMessage(p, block)
    [] block.type = "openQuestion"   -> processOpenQuestion(p, block)
    [] block.type = "choiceQuestion" -> processChoiceQuestion(p, block)
    [] block.type = "condition" ->
         LET nextBlockId == ConditionNext(block, p.sessionVariables) IN
           IF nextBlockId # ""
           THEN IF nextBlockId \in BlockIds(bs)
                THEN IF fuel = 0 THEN p
                     ELSE processBlock([p EXCEPT !.currentBlockId = nextBlockId],
                                       bs, FindBlock(bs, nextBlockId), fuel - 1)
                ELSE endChat(addErrorMessage(p, ErrMissingTarget))
           ELSE endChat(addErrorMessage(p, ErrNoCondition))
    [] block.type = "setVariable"    -> processSetVariable(p, block)
    [] block.type = "image"          -> processImage(p, block)
    [] block.type = "end"            -> processEnd(p, block)
    [] OTHER -> p

\* the callback ending the run in silence when the next block is missing
advance_Silent(p, bs, block) ==
  IF block.nextBlockId # "" /\ block.nextBlockId \in BlockIds(bs)
  THEN processBlock([p EXCEPT !.currentBlockId = block.nextBlockId],
                    bs, FindBlock(bs, block.nextBlockId), Len(bs))
  ELSE endChat(p)

\* the callback that cases message, setVariable and image hand to setTimeout
advance(p, bs, block) ==
  IF block.nextBlockId # ""
  THEN IF block.nextBlockId \in BlockIds(bs)
       THEN processBlock([p EXCEPT !.currentBlockId = block.nextBlockId],
                         bs, FindBlock(bs, block.nextBlockId), Len(bs))
       ELSE endChat(addErrorMessage(p, ErrMissingTarget))
  ELSE endChat(p)

\* the entry block taken to be the first block of the list
StartBlock_First(bs) == bs[1]

\* the block startChat begins at: the first of type message, else the first
StartBlock(bs) ==
  IF \E i \in 1..Len(bs) : bs[i].type = "message"
  THEN bs[CHOOSE i \in 1..Len(bs) :
            bs[i].type = "message" /\ \A j \in 1..(i - 1) : bs[j].type # "message"]
  ELSE bs[1]

startChat(p, bs) ==
  LET p1 == [p EXCEPT !.messages = <<>>,
                      !.currentBlockId = "",
                      !.isWaitingForInput = FALSE,
                      !.currentChoices = <<>>,
                      !.isRunning = TRUE,
                      !.sessionVariables = p.variables]
      p2 == syncVariablesToParent(p1)
  IN IF Len(bs) > 0
     THEN processBlock([p2 EXCEPT !.currentBlockId = StartBlock(bs).id],
                       bs, StartBlock(bs), Len(bs))
     ELSE addErrorMessage(p2, ErrNoBlocks)

\* handleSendMessage past its guard, input being userInput.value.trim()
sendInput(p, bs, input) ==
  LET p1 == addUserMessage(p, input)
      found == p.currentBlockId \in BlockIds(bs)
      currentBlock == FindBlock(bs, p.currentBlockId)
      p2 == IF /\ found
               /\ currentBlock.type = "openQuestion"
               /\ currentBlock.variableName # <<>>
               /\ HasVariable(p1.sessionVariables, currentBlock.variableName)
            THEN LET variable == Lookup(p1.sessionVariables, currentBlock.variableName)
                     parsed == ToNumber(JsStr(input))
                     value == IF variable.type = "number"
                              THEN (IF Truthy(parsed) THEN parsed ELSE JsNum(0))
                              ELSE JsStr(input)
                     session == p1.sessionVariables
                 IN syncVariablesToParent(
                      [p1 EXCEPT !.sessionVariables =
                         [key \in DOMAIN session \cup {currentBlock.variableName} |->
                            IF key = currentBlock.variableName
                            THEN [variable EXCEPT !.value = value]
                            ELSE session[key]]])
            ELSE p1
      p3 == [p2 EXCEPT !.isWaitingForInput = FALSE]
  IN IF found /\ currentBlock.nextBlockId # ""
     THEN IF currentBlock.nextBlockId \in BlockIds(bs)
          THEN setTimeout([p3 EXCEPT !.currentBlockId = currentBlock.nextBlockId],
                          Timer("process", FindBlock(bs, currentBlock.nextBlockId)))
          ELSE endChat(addErrorMessage(p3, ErrMissingTarget))
     ELSE endChat(p3)

\* handleSendMessage that answers in any state of the run
handleSendMessage_AnyState(p, bs, text) ==
  IF Trim(text) = <<>> THEN p ELSE sendInput(p, bs, Trim(text))

\* handleSendMessage that keeps the white space around the text
handleSendMessage_NoTrim(p, bs, text) ==
  IF Trim(text) = <<>> \/ ~p.isWaitingForInput THEN p ELSE sendInput(p, bs, text)

\* handleSendMessage with userInput holding text (the v-model of the input field)
handleSendMessage(p, bs, text) ==
  IF Trim(text) = <<>> \/ ~p.isWaitingForInput THEN p
  ELSE sendInput(p, bs, Trim(text))

\* handleChoiceClick that leaves the choice buttons in place
handleChoiceClick_KeepChoices(p, bs, choice) ==
  LET p1 == addUserMessage(p, choice.label) IN
    IF choice.nextBlockId # ""
    THEN IF choice.nextBlockId \in BlockIds(bs)
         THEN setTimeout([p1 EXCEPT !.currentBlockId = choice.nextBlockId],
                         Timer("process", FindBlock(bs, choice.nextBlockId)))
         ELSE endChat(addErrorMessage(p1, ErrMissingTarget))
    ELSE endChat(addErrorMessage(p1, ErrChoiceNoTarget))

\* handleChoiceClick that interpolates the label it shows
handleChoiceClick_Interpolated(p, bs, choice) ==
  LET label == interpolateText(choice.label, p.sessionVariables)
      p1 == [addUserMessage(p, label) EXCEPT !.currentChoices = <<>>] IN
    IF choice.nextBlockId # ""
    THEN IF choice.nextBlockId \in BlockIds(bs)
         THEN setTimeout([p1 EXCEPT !.currentBlockId = choice.nextBlockId],
                         Timer("process", FindBlock(bs, choice.nextBlockId)))
         ELSE endChat(addErrorMessage(p1, ErrMissingTarget))
    ELSE endChat(addErrorMessage(p1, ErrChoiceNoTarget))

handleChoiceClick(p, bs, choice) ==
  LET p1 == [addUserMessage(p, choice.label) EXCEPT !.currentChoices = <<>>] IN
    IF choice.nextBlockId # ""
    THEN IF choice.nextBlockId \in BlockIds(bs)
         THEN setTimeout([p1 EXCEPT !.currentBlockId = choice.nextBlockId],
                         Timer("process", FindBlock(bs, choice.nextBlockId)))
         ELSE endChat(addErrorMessage(p1, ErrMissingTarget))
    ELSE endChat(addErrorMessage(p1, ErrChoiceNoTarget))

\* a callback that stays pending after it has run
runTimer_Keep(p, bs, t) ==
  IF t.kind = "advance" THEN advance(p, bs, t.block)
  ELSE processBlock(p, bs, t.block, Len(bs))

\* a pending setTimeout callback runs
runTimer(p, bs, t) ==
  LET q == [p EXCEPT !.timers = @ \ {t}] IN
    IF t.kind = "advance" THEN advance(q, bs, t.block)
    ELSE processBlock(q, bs, t.block, Len(bs))

(***************************************************************************)
(* The state of the preview panel as one record, and back.                 *)
(***************************************************************************)
Panel ==
  [messages |-> messages, currentBlockId |-> currentBlockId,
   isWaitingForInput |-> isWaitingForInput, currentChoices |-> currentChoices,
   sessionVariables |-> sessionVariables, isRunning |-> isRunning,
   timers |-> timers, variables |-> variables, path |-> <<>>]

SetPanel(r) ==
  /\ messages' = r.messages
  /\ currentBlockId' = r.currentBlockId
  /\ isWaitingForInput' = r.isWaitingForInput
  /\ currentChoices' = r.currentChoices
  /\ sessionVariables' = r.sessionVariables
  /\ isRunning' = r.isRunning
  /\ timers' = r.timers
  /\ variables' = r.variables

Op(op, id, text, path, returned) ==
  [op |-> op, id |-> id, text |-> text, path |-> path, returned |-> returned]

\* the template of PreviewPanel: the start button (start-screen) is rendered
\* before a run has left anything, the restart button once a run has ended
StartButtonShown ==
  \/ ~isRunning /\ Len(messages) = 0
  \/ ~isWaitingForInput /\ Len(currentChoices) = 0 /\ ~isRunning

\* the texts a tester types into the input field
Texts == {<<>>, <<" ">>, <<"A", "d", "a">>, <<" ", "7", " ">>}

(***************************************************************************)
(* The actions of the preview panel.                                       *)
(***************************************************************************)
\* a click on "Iniciar Teste" / "Recomecar"
StartChat ==
  /\ StartButtonShown
  /\ LET r == startChat(Panel, blocks) IN
       /\ SetPanel(r)
       /\ lastOp' = Op("startChat", "", <<>>, r.path, FALSE)
  /\ UNCHANGED <<blocks, connections, selectedBlockId, contextMenuBlockId, copiedBlock,
                 connectingFrom, now>>

\* Enter or a click on "Enviar" with text in the input field
HandleSendMessage(text) ==
  /\ Len(messages) + 2 <= MaxMessages
  /\ LET r == handleSendMessage(Panel, blocks, text) IN
       /\ SetPanel(r)
       /\ lastOp' = IF Trim(text) = <<>> \/ ~isWaitingForInput
                    THEN Op("handleSendMessage", "", <<>>, <<>>, TRUE)
                    ELSE Op("handleSendMessage", "", text, r.path, FALSE)
  /\ UNCHANGED <<blocks, connections, selectedBlockId, contextMenuBlockId, copiedBlock,
                 connectingFrom, now>>

\* a click on the i-th of the choice buttons the template renders (v-for over
\* currentChoices)
HandleChoiceClick(i) ==
  /\ i \in 1..Len(currentChoices)
  /\ Len(messages) + 2 <= MaxMessages
  /\ LET r == handleChoiceClick(Panel, blocks, currentChoices[i]) IN
       /\ SetPanel(r)
       /\ lastOp' = Op("handleChoiceClick", currentChoices[i].id, <<>>, r.path, FALSE)
  /\ UNCHANGED <<blocks, connections, selectedBlockId, contextMenuBlockId, copiedBlock,
                 connectingFrom, now>>

\* a pending setTimeout callback runs
TimerFires(t) ==
  /\ t \in timers
  /\ Len(messages) + 2 <= MaxMessages
  /\ LET r == runTimer(Panel, blocks, t) IN
       /\ SetPanel(r)
       /\ lastOp' = Op("timer", t.block.id, <<>>, r.path, FALSE)
  /\ UNCHANGED <<blocks, connections, selectedBlockId, contextMenuBlockId, copiedBlock,
                 connectingFrom, now>>

(***************************************************************************)
(* The graphs and variable stores the interpreter is run on: every list of *)
(* at most two blocks b1, b2, each of any type, each successor reference   *)
(* absent, the other block, or b9, which is not in the graph.              *)
(***************************************************************************)
VarN == <<"n">>
MessageText  == <<"H", "{", "{", "n", "}", "}">>
QuestionText == <<"Q", "?">>
ChoiceText   == <<"C", "{", "{", "n", "}", "}">>
EndText      == <<"B", "{", "{", "n", "}", "}">>
ChoiceLabels == << <<"{", "{", "n", "}", "}">>, <<"B">> >>
ChoiceIds    == <<"choice_1", "choice_2">>
CondIds      == <<"cond_1", "cond_2">>
CondOps      == <<">", ">">>
CondValues   == << <<"1", "0">>, <<"0">> >>

GraphIds == <<"b1", "b2">>
Targets(id) == {"", "b9"} \cup ({GraphIds[i] : i \in 1..Len(GraphIds)} \ {id})
Routes(id) ==
  {<<>>} \cup {<<t>> : t \in Targets(id)}
         \cup {<<t, u>> : t \in Targets(id), u \in Targets(id)}

BlockVariants(id) ==
  {Block(id, "message", MessageText, t) : t \in Targets(id)}
  \cup {[Block(id, "openQuestion", QuestionText, t) EXCEPT !.variableName = v] :
          t \in Targets(id), v \in {<<>>, VarN}}
  \cup {[Block(id, "choiceQuestion", ChoiceText, "") EXCEPT
           !.hasChoices = TRUE,
           !.choices = [i \in 1..Len(r) |-> Choice(ChoiceIds[i], ChoiceLabels[i], r[i])]] :
          r \in Routes(id)}
  \cup {[Block(id, "condition", <<>>, "") EXCEPT
           !.hasConditions = TRUE,
           !.conditions = [i \in 1..Len(r) |->
              Condition(CondIds[i], VarN, CondOps[i], CondValues[i], r[i])]] :
          r \in Routes(id)}
  \cup {Block(id, "condition", <<>>, "")}
  \cup {[Block(id, "setVariable", <<>>, t) EXCEPT
           !.variableName = v, !.variableValue = <<"7">>] :
          t \in Targets(id), v \in {<<>>, VarN}}
  \cup {[Block(id, "math", <<>>, t) EXCEPT
           !.variableName = VarN, !.mathOperation = <<"+">>, !.mathValue = <<"5">>] :
          t \in Targets(id)}
  \cup {[Block(id, "image", <<>>, t) EXCEPT !.imageUrl = u] :
          t \in Targets(id), u \in {<<>>, <<"u">>}}
  \cup {Block(id, "end", c, t) : c \in {<<>>, EndText}, t \in Targets(id)}

\* no condition block leads back to itself through condition blocks only
CondTargets(b) == {b.conditions[i].nextBlockId : i \in 1..Len(b.conditions)}
NoConditionCycle(bs) ==
  \A i \in 1..Len(bs), j \in 1..Len(bs) :
    ~(/\ i # j
      /\ bs[i].type = "condition" /\ bs[j].type = "condition"
      /\ bs[j].id \in CondTargets(bs[i])
      /\ bs[i].id \in CondTargets(bs[j]))

\* graphs of three blocks: a condition or a choice question (the block startChat
\* begins at, none being a message) whose two branches lead to the open question
\* b2 or the end b3
BranchGraphs ==
  {<<a, Block("b2", "openQuestion", QuestionText, ""), Block("b3", "end", EndText, "")>> :
     a \in {[Block("b1", "condition", <<>>, "") EXCEPT
               !.hasConditions = TRUE,
               !.conditions = [i \in 1..2 |->
                  Condition(CondIds[i], VarN, CondOps[i], CondValues[i], r[i])]] :
              r \in {"b2", "b3"} \X {"b2", "b3"}}
           \cup
           {[Block("b1", "choiceQuestion", ChoiceText, "") EXCEPT
               !.hasChoices = TRUE,
               !.choices = [i \in 1..2 |->
                  Choice(ChoiceIds[i], ChoiceLabels[i], r[i])]] :
              r \in {"b2", "b3"} \X {"b2", "b3"}}}

\* graphs (of an imported project) whose blocks name constructor, which no store
\* holds as a variable: an open question bound to it, then a condition on it
VarStale == <<"c","o","n","s","t","r","u","c","t","o","r">>
StaleGraphs ==
  {<<[Block("b1", "openQuestion", QuestionText, "b2") EXCEPT !.variableName = VarStale],
     [Block("b2", "condition", <<>>, "") EXCEPT
        !.hasConditions = TRUE,
        !.conditions = <<Condition(CondIds[1], VarStale, op, CondValues[2], "b3")>>],
     Block("b3", "end", EndText, "")>> : op \in {"!=", "=="}}
  \cup
  {<<[Block("b1", "condition", <<>>, "") EXCEPT
        !.hasConditions = TRUE,
        !.conditions = <<Condition(CondIds[1], VarStale, op, CondValues[2], "b2")>>],
     Block("b2", "end", EndText, "")>> : op \in {"!=", ">"}}

Graphs ==
  {g \in {<<>>} \cup {<<a>> : a \in BlockVariants("b1")}
                \cup {<<a, b>> : a \in BlockVariants("b1"), b \in BlockVariants("b2")} :
     NoConditionCycle(g)}
  \cup BranchGraphs
  \cup StaleGraphs

Store(vs) == [name \in {v.name : v \in vs} |-> CHOOSE v \in vs : v.name = name]
VarStores ==
  {Store({}),
   Store({Variable(VarN, "number", JsNum(15))}),
   Store({Variable(VarN, "number", JsNum(5))}),
   Store({Variable(VarN, "number", JsNum(0))}),
   Store({Variable(VarN, "number", JsNull)}),
   Store({Variable(VarN, "string", JsStr(<<>>))})}

PreviewIdle ==
  /\ messages = <<>>
  /\ currentBlockId = ""
  /\ isWaitingForInput = FALSE
  /\ currentChoices = <<>>
  /\ sessionVariables = Store({})
  /\ isRunning = FALSE
  /\ timers = {}

EditorIdle ==
  /\ connections = <<>>
  /\ selectedBlockId = ""
  /\ contextMenuBlockId = ""
  /\ copiedBlock = <<>>
  /\ connectingFrom = [blockId |-> "", outputId |-> ""]
  /\ now = 0

(***************************************************************************)
(* Spec: the preview panel run on a graph and a variable store.            *)
(***************************************************************************)
Init ==
  /\ blocks \in Graphs
  /\ variables \in VarStores
  /\ EditorIdle
  /\ PreviewIdle
  /\ lastOp = Op("init", "", <<>>, <<>>, FALSE)

Next ==
  \/ StartChat
  \/ \E text \in Texts : HandleSendMessage(text)
  \/ \E i \in 1..2 : HandleChoiceClick(i)
  \/ \E t \in timers : TimerFires(t)

Spec == Init /\ [][Next]_vars

(***************************************************************************)
(* RunSpec: the preview panel on graphs of one block of each type and of   *)
(* two blocks in a row; a callback handed to setTimeout runs in the end.   *)
(***************************************************************************)
RunGraphs ==
  {<<a>> : a \in BlockVariants("b1")}
  \cup {<<a, b>> : a \in {Block("b1", "message", MessageText, "b2"),
                          [Block("b1", "setVariable", <<>>, "b2") EXCEPT
                             !.variableName = VarN, !.variableValue = <<"7">>]},
                   b \in BlockVariants("b2")}

RunInit ==
  /\ blocks \in RunGraphs
  /\ variables \in VarStores
  /\ EditorIdle
  /\ PreviewIdle
  /\ lastOp = Op("init", "", <<>>, <<>>, FALSE)

RunSpec == RunInit /\ [][Next]_vars /\ WF_vars(\E t \in timers : TimerFires(t))

(***************************************************************************)
(* The editor: App.vue, Canvas.vue, BlockNode.vue, PropertiesPanel.vue.    *)
(***************************************************************************)
\* `${prefix}${Date.now()}`
StampedId(prefix) == prefix \o ToString(now)

\* App.vue: the initial value of blocks
InitialBlocks == <<Block("block_inicio", "message", <<"Ola! Bem-vindo ao chatbot.">>, "")>>

\* the block types the menu of this model creates: message stands for the types
\* with a main output handle, which the editor treats alike
EditorTypes == {"message", "choiceQuestion", "condition", "end"}

\* time passes
Tick ==
  /\ now < MaxClock
  /\ now' = now + 1
  /\ UNCHANGED <<appVars, canvasVars, previewVars, lastOp>>

\* App.vue getDefaultContent(type), each text written as one token
getDefaultContent(type) ==
  CASE type = "message"        -> <<"Ola! Bem-vindo ao chatbot.">>
    [] type = "openQuestion"   -> <<"Qual e o seu nome?">>
    [] type = "choiceQuestion" -> <<"Escolha uma opcao:">>
    [] type = "condition"      -> <<"Verificando condicao...">>
    [] type = "setVariable"    -> <<"Definindo variavel...">>
    [] type = "math"           -> <<"Operacao matematica">>
    [] type = "image"          -> <<"Imagem">>
    [] type = "end"            -> <<"Obrigado por usar o chatbot!">>
    [] OTHER                   -> <<>>

\* App.vue createBlock(type)
CreateBlock(type) ==
  /\ LET newBlock == [Block(StampedId("block_"), type, getDefaultContent(type), "") EXCEPT
                        !.hasChoices = (type = "choiceQuestion"),
                        !.hasConditions = (type = "condition")]
     IN /\ blocks' = Append(blocks, newBlock)
        /\ selectedBlockId' = newBlock.id
        /\ UNCHANGED <<connections, variables, contextMenuBlockId, copiedBlock, canvasVars, now,
                 previewVars, lastOp>>

\* App.vue updateBlock(updatedBlock)
updateBlock(bs, updatedBlock) ==
  IF updatedBlock.id \in BlockIds(bs)
  THEN [bs EXCEPT ![CHOOSE i \in 1..Len(bs) :
                      bs[i].id = updatedBlock.id
                      /\ \A j \in 1..(i - 1) : bs[j].id # updatedBlock.id] = updatedBlock]
  ELSE bs

\* Canvas.vue handleBlockSelect(blockId): the selection after a click on a block
handleBlockSelect(blockId) ==
  IF connectingFrom.blockId = "" THEN blockId ELSE selectedBlockId

\* a click on block blockId, then PropertiesPanel.vue addChoice on the copy of the
\* selected block that the panel edits
AddChoice(blockId) ==
  /\ blockId \in BlockIds(blocks)
  /\ handleBlockSelect(blockId) \in BlockIds(blocks)
  /\ LET localBlock == FindBlock(blocks, handleBlockSelect(blockId)) IN
       /\ localBlock.type = "choiceQuestion"
       /\ Len(localBlock.choices) < MaxOutputs
       /\ blocks' = updateBlock(blocks,
            [localBlock EXCEPT
               !.hasChoices = TRUE,
               !.choices = Append(@, Choice(StampedId("choice_"), <<"N">>, ""))])
  /\ selectedBlockId' = handleBlockSelect(blockId)
  /\ UNCHANGED <<connections, variables, contextMenuBlockId, copiedBlock,
                 canvasVars, now, previewVars, lastOp>>

\* a click on block blockId, then PropertiesPanel.vue addCondition on the copy of
\* the selected block that the panel edits
AddCondition(blockId) ==
  /\ blockId \in BlockIds(blocks)
  /\ handleBlockSelect(blockId) \in BlockIds(blocks)
  /\ LET localBlock == FindBlock(blocks, handleBlockSelect(blockId))
         firstVarName == IF DOMAIN variables = {} THEN <<"v", "a", "r", "1">>
                         ELSE CHOOSE name \in DOMAIN variables : TRUE
     IN
       /\ localBlock.type = "condition"
       /\ Len(localBlock.conditions) < MaxOutputs
       /\ blocks' = updateBlock(blocks,
            [localBlock EXCEPT
               !.hasConditions = TRUE,
               !.conditions = Append(@,
                  Condition(StampedId("cond_"), firstVarName, "==", <<>>, ""))])
  /\ selectedBlockId' = handleBlockSelect(blockId)
  /\ UNCHANGED <<connections, variables, contextMenuBlockId, copiedBlock,
                 canvasVars, now, previewVars, lastOp>>

\* BlockNode.vue: the output handles a block renders
OutputHandles(b) ==
  (IF b.type \notin {"end", "choiceQuestion", "condition"} THEN {""} ELSE {})
  \cup (IF b.type = "choiceQuestion" /\ b.hasChoices
        THEN {b.choices[i].id : i \in 1..Len(b.choices)} ELSE {})
  \cup (IF b.type = "condition" /\ b.hasConditions
        THEN {b.conditions[i].id : i \in 1..Len(b.conditions)} ELSE {})

\* Canvas.vue handleConnectStart(blockId, outputId): mousedown on an output handle
HandleConnectStart(blockId, outputId) ==
  /\ blockId \in BlockIds(blocks)
  /\ outputId \in OutputHandles(FindBlock(blocks, blockId))
  /\ connectingFrom' = [blockId |-> blockId, outputId |-> outputId]
  /\ UNCHANGED <<appVars, now, previewVars, lastOp>>

\* createConnection that leaves the output's earlier connection in place
createConnection_Keep(bs, conns, fromBlockId, fromOutputId, toBlockId, connId) ==
  LET unchanged == [blocks |-> bs, connections |-> conns] IN
  IF fromBlockId \notin BlockIds(bs) \/ toBlockId \notin BlockIds(bs) THEN unchanged
  ELSE IF FindBlock(bs, fromBlockId).type = "end" THEN unchanged
  ELSE IF \E i \in 1..Len(conns) :
            /\ conns[i].fromBlockId = fromBlockId
            /\ conns[i].fromOutputId = fromOutputId
            /\ conns[i].toBlockId = toBlockId
       THEN unchanged
  ELSE
    [blocks |-> [i \in 1..Len(bs) |->
                   IF bs[i].id = fromBlockId /\ fromOutputId = ""
                   THEN [bs[i] EXCEPT !.nextBlockId = toBlockId] ELSE bs[i]],
     connections |-> Append(conns,
                            Connection(connId, fromBlockId, fromOutputId, toBlockId))]

\* Canvas.vue createConnection: the blocks and connections it emits
createConnection(bs, conns, fromBlockId, fromOutputId, toBlockId, connId) ==
  LET unchanged == [blocks |-> bs, connections |-> conns] IN
  IF fromBlockId \notin BlockIds(bs) \/ toBlockId \notin BlockIds(bs) THEN unchanged
  ELSE IF FindBlock(bs, fromBlockId).type = "end" THEN unchanged
  ELSE IF \E i \in 1..Len(conns) :
            /\ conns[i].fromBlockId = fromBlockId
            /\ conns[i].fromOutputId = fromOutputId
            /\ conns[i].toBlockId = toBlockId
       THEN unchanged
  ELSE
    LET Rewire(block) ==
          IF fromOutputId # "" /\ block.hasChoices
          THEN [block EXCEPT !.choices =
                  [i \in 1..Len(block.choices) |->
                     IF block.choices[i].id = fromOutputId
                     THEN [block.choices[i] EXCEPT !.nextBlockId = toBlockId]
                     ELSE block.choices[i]]]
          ELSE IF fromOutputId # "" /\ block.hasConditions
          THEN [block EXCEPT !.conditions =
                  [i \in 1..Len(block.conditions) |->
                     IF block.conditions[i].id = fromOutputId
                     THEN [block.conditions[i] EXCEPT !.nextBlockId = toBlockId]
                     ELSE block.conditions[i]]]
          ELSE [block EXCEPT !.nextBlockId = toBlockId]
        Other(c) == ~(c.fromBlockId = fromBlockId /\ c.fromOutputId = fromOutputId)
    IN [blocks |-> [i \in 1..Len(bs) |->
                      IF bs[i].id = fromBlockId THEN Rewire(bs[i]) ELSE bs[i]],
        connections |-> Append(SelectSeq(conns, Other),
                               Connection(connId, fromBlockId, fromOutputId, toBlockId))]

\* Canvas.vue handleInputClick(blockId): mousedown on the input handle of a block
HandleInputClick(blockId) ==
  /\ blockId \in BlockIds(blocks)
  /\ IF connectingFrom.blockId = "" \/ connectingFrom.blockId = blockId
     THEN UNCHANGED <<blocks, connections>>
     ELSE LET r == createConnection(blocks, connections, connectingFrom.blockId,
                                    connectingFrom.outputId, blockId,
                                    StampedId("conn_"))
          IN blocks' = r.blocks /\ connections' = r.connections
  /\ connectingFrom' = [blockId |-> "", outputId |-> ""]
  /\ UNCHANGED <<variables, selectedBlockId, contextMenuBlockId, copiedBlock, now, previewVars, lastOp>>

\* Canvas.vue handleBlockDelete(blockId): the delete button of a block
handleBlockDelete(bs, conns, blockId) ==
  LET KeepBlock(b) == b.id # blockId
      KeepConn(c) == c.fromBlockId # blockId /\ c.toBlockId # blockId
  IN [blocks |-> SelectSeq(bs, KeepBlock), connections |-> SelectSeq(conns, KeepConn)]

HandleBlockDelete(blockId) ==
  /\ blockId \in BlockIds(blocks)
  /\ LET r == handleBlockDelete(blocks, connections, blockId) IN
       blocks' = r.blocks /\ connections' = r.connections
  /\ selectedBlockId' = IF selectedBlockId = blockId THEN "" ELSE selectedBlockId
  /\ UNCHANGED <<variables, contextMenuBlockId, copiedBlock, canvasVars, now, previewVars, lastOp>>

\* App.vue deleteBlockFromMenu, with contextMenuBlockId = blockId
deleteBlockFromMenu(bs, conns, blockId) ==
  LET KeepBlock(b) == b.id # blockId
      KeepConn(c) == c.fromBlockId # blockId /\ c.toBlockId # blockId
  IN [blocks |-> SelectSeq(bs, KeepBlock), connections |-> SelectSeq(conns, KeepConn)]

\* a right click on block blockId (App.vue handleBlockContextMenu sets
\* contextMenuBlockId) and then "delete" in the menu it opens (deleteBlockFromMenu,
\* which ends with closeContextMenu)
DeleteBlockFromMenu(blockId) ==
  /\ blockId \in BlockIds(blocks)
  /\ LET r == deleteBlockFromMenu(blocks, connections, blockId) IN
       blocks' = r.blocks /\ connections' = r.connections
  /\ selectedBlockId' = IF selectedBlockId = blockId THEN "" ELSE selectedBlockId
  /\ contextMenuBlockId' = ""
  /\ UNCHANGED <<variables, copiedBlock, canvasVars, now, previewVars, lastOp>>

\* a right click on block blockId and then "duplicate" in the menu it opens:
\* App.vue duplicateBlock, which ends with closeContextMenu
DuplicateBlock(blockId) ==
  /\ blockId \in BlockIds(blocks)
  /\ blocks' = Append(blocks, [FindBlock(blocks, blockId) EXCEPT !.id = StampedId("")])
  /\ contextMenuBlockId' = ""
  /\ UNCHANGED <<connections, variables, selectedBlockId, copiedBlock, canvasVars, now,
                 previewVars, lastOp>>

\* a right click on block blockId and then "copy": App.vue copyBlock
CopyBlock(blockId) ==
  /\ blockId \in BlockIds(blocks)
  /\ copiedBlock' = <<FindBlock(blocks, blockId)>>
  /\ contextMenuBlockId' = ""
  /\ UNCHANGED <<blocks, connections, variables, selectedBlockId, canvasVars, now,
                 previewVars, lastOp>>

\* "paste" in the menu of the canvas, which shows it when a block was copied:
\* App.vue pasteBlock
PasteBlock ==
  /\ copiedBlock # <<>>
  /\ blocks' = Append(blocks, [copiedBlock[1] EXCEPT !.id = StampedId("")])
  /\ contextMenuBlockId' = ""
  /\ UNCHANGED <<connections, variables, selectedBlockId, copiedBlock, canvasVars, now,
                 previewVars, lastOp>>

\* Canvas.vue deleteSelectedConnection with selectedConnectionId = connId
deleteSelectedConnection(bs, conns, connId) ==
  IF ~\E i \in 1..Len(conns) : conns[i].id = connId
  THEN [blocks |-> bs, connections |-> conns]
  ELSE
    LET connection == conns[CHOOSE i \in 1..Len(conns) :
                              conns[i].id = connId
                              /\ \A j \in 1..(i - 1) : conns[j].id # connId]
        Keep(c) == c.id # connId
        Unwire(block) ==
          IF connection.fromOutputId # "" /\ block.hasChoices
          THEN [block EXCEPT !.choices =
                  [i \in 1..Len(block.choices) |->
                     IF block.choices[i].id = connection.fromOutputId
                     THEN [block.choices[i] EXCEPT !.nextBlockId = ""]
                     ELSE block.choices[i]]]
          ELSE IF connection.fromOutputId # "" /\ block.hasConditions
          THEN [block EXCEPT !.conditions =
                  [i \in 1..Len(block.conditions) |->
                     IF block.conditions[i].id = connection.fromOutputId
                     THEN [block.conditions[i] EXCEPT !.nextBlockId = ""]
                     ELSE block.conditions[i]]]
          ELSE [block EXCEPT !.nextBlockId = ""]
    IN [blocks |-> [i \in 1..Len(bs) |->
                      IF bs[i].id = connection.fromBlockId THEN Unwire(bs[i]) ELSE bs[i]],
        connections |-> SelectSeq(conns, Keep)]

\* a click on the line of connection connId (handleConnectionClick selects it) and
\* then the Delete key (handleKeyDown, deleteSelectedConnection, which clears the
\* selection)
DeleteSelectedConnection(connId) ==
  /\ \E i \in 1..Len(connections) : connections[i].id = connId
  /\ LET r == deleteSelectedConnection(blocks, connections, connId) IN
       blocks' = r.blocks /\ connections' = r.connections
  /\ UNCHANGED <<variables, selectedBlockId, contextMenuBlockId, copiedBlock, canvasVars,
                 now, previewVars, lastOp>>

\* a click on block blockId, then PropertiesPanel.vue removeChoice(choiceId) on the
\* copy of the selected block that the panel edits
RemoveChoice(blockId, choiceId) ==
  /\ blockId \in BlockIds(blocks)
  /\ handleBlockSelect(blockId) \in BlockIds(blocks)
  /\ LET localBlock == FindBlock(blocks, handleBlockSelect(blockId))
         Keep(c) == c.id # choiceId
     IN
       /\ localBlock.type = "choiceQuestion"
       /\ localBlock.hasChoices
       /\ \E i \in 1..Len(localBlock.choices) : localBlock.choices[i].id = choiceId
       /\ blocks' = updateBlock(blocks,
            [localBlock EXCEPT !.choices = SelectSeq(@, Keep)])
  /\ selectedBlockId' = handleBlockSelect(blockId)
  /\ UNCHANGED <<connections, variables, contextMenuBlockId, copiedBlock,
                 canvasVars, now, previewVars, lastOp>>

\* a click on block blockId, then PropertiesPanel.vue removeCondition(condId)
RemoveCondition(blockId, condId) ==
  /\ blockId \in BlockIds(blocks)
  /\ handleBlockSelect(blockId) \in BlockIds(blocks)
  /\ LET localBlock == FindBlock(blocks, handleBlockSelect(blockId))
         Keep(c) == c.id # condId
     IN
       /\ localBlock.type = "condition"
       /\ localBlock.hasConditions
       /\ \E i \in 1..Len(localBlock.conditions) : localBlock.conditions[i].id = condId
       /\ blocks' = updateBlock(blocks,
            [localBlock EXCEPT !.conditions = SelectSeq(@, Keep)])
  /\ selectedBlockId' = handleBlockSelect(blockId)
  /\ UNCHANGED <<connections, variables, contextMenuBlockId, copiedBlock,
                 canvasVars, now, previewVars, lastOp>>

\* the ids of the outputs of the blocks and of the connections
OutputIds(bs) == UNION {OutputHandles(bs[i]) : i \in 1..Len(bs)}
ConnectionIds(conns) == {conns[i].id : i \in 1..Len(conns)}

(***************************************************************************)
(* EditorSpec: the editor, from the state App.vue starts in.               *)
(***************************************************************************)
EditorInit ==
  /\ blocks = InitialBlocks
  /\ variables = Store({})
  /\ EditorIdle
  /\ PreviewIdle
  /\ lastOp = Op("init", "", <<>>, <<>>, FALSE)

EditorNext ==
  \/ Tick
  \/ Len(blocks) < MaxEditorBlocks /\ \E type \in EditorTypes : CreateBlock(type)
  \/ \E id \in BlockIds(blocks) : AddChoice(id)
  \/ \E id \in BlockIds(blocks) : AddCondition(id)
  \/ \E id \in BlockIds(blocks) :
       \E out \in OutputHandles(FindBlock(blocks, id)) : HandleConnectStart(id, out)
  \/ \E id \in BlockIds(blocks) : HandleInputClick(id)
  \/ \E id \in BlockIds(blocks) : HandleBlockDelete(id)
  \/ \E id \in BlockIds(blocks) : DeleteBlockFromMenu(id)
  \/ \E id \in ConnectionIds(connections) : DeleteSelectedConnection(id)
  \/ \E id \in BlockIds(blocks), out \in OutputIds(blocks) : RemoveChoice(id, out)
  \/ \E id \in BlockIds(blocks), out \in OutputIds(blocks) : RemoveCondition(id, out)

EditorSpec == EditorInit /\ [][EditorNext]_vars

(***************************************************************************)
(* GraphSpec: blocks with a main output and end blocks, created, connected, *)
(* disconnected, deleted and duplicated.                                   *)
(***************************************************************************)
GraphTypes == {"message", "end"}

GraphNext ==
  \/ Tick
  \/ Len(blocks) < MaxGraphBlocks /\ \E type \in GraphTypes : CreateBlock(type)
  \/ \E id \in BlockIds(blocks) :
       \E out \in OutputHandles(FindBlock(blocks, id)) : HandleConnectStart(id, out)
  \/ \E id \in BlockIds(blocks) : HandleInputClick(id)
  \/ \E id \in BlockIds(blocks) : HandleBlockDelete(id)
  \/ Len(blocks) < MaxGraphBlocks /\ \E id \in BlockIds(blocks) : DuplicateBlock(id)
  \/ \E id \in ConnectionIds(connections) : DeleteSelectedConnection(id)

GraphSpec == EditorInit /\ [][GraphNext]_vars

(***************************************************************************)
(* ClipboardSpec: blocks copied to localStorage and pasted from it.        *)
(***************************************************************************)
ClipboardNext ==
  \/ Tick
  \/ Len(blocks) < MaxEditorBlocks /\ \E type \in GraphTypes : CreateBlock(type)
  \/ \E id \in BlockIds(blocks) :
       \E out \in OutputHandles(FindBlock(blocks, id)) : HandleConnectStart(id, out)
  \/ \E id \in BlockIds(blocks) : HandleInputClick(id)
  \/ \E id \in BlockIds(blocks) : HandleBlockDelete(id)
  \/ \E id \in BlockIds(blocks) : CopyBlock(id)
  \/ Len(blocks) < MaxEditorBlocks /\ PasteBlock

ClipboardSpec == EditorInit /\ [][ClipboardNext]_vars

\* a click on block blockId, then typing text into the content field of the
\* properties panel (rendered for the types that show a text)
EditContent(blockId, text) ==
  /\ blockId \in BlockIds(blocks)
  /\ handleBlockSelect(blockId) \in BlockIds(blocks)
  /\ LET localBlock == FindBlock(blocks, handleBlockSelect(blockId)) IN
       /\ localBlock.type \notin {"end", "setVariable", "math", "image"}
       /\ blocks' = updateBlock(blocks, [localBlock EXCEPT !.content = text])
  /\ selectedBlockId' = handleBlockSelect(blockId)
  /\ UNCHANGED <<connections, variables, contextMenuBlockId, copiedBlock,
                 canvasVars, now, previewVars, lastOp>>

(***************************************************************************)
(* LiveEditSpec: a preview run while the canvas deletes blocks and the     *)
(* properties panel edits their text.                                      *)
(***************************************************************************)
EditedText == <<"E">>

LiveGraphs ==
  {<<[Block("b1", "openQuestion", QuestionText, "b2") EXCEPT !.variableName = VarN],
     Block("b2", "openQuestion", ChoiceText, "b3"),
     Block("b3", "end", EndText, "")>>,
   <<[Block("b1", "choiceQuestion", ChoiceText, "") EXCEPT
        !.hasChoices = TRUE,
        !.choices = <<Choice(ChoiceIds[1], ChoiceLabels[1], "b2"),
                      Choice(ChoiceIds[2], ChoiceLabels[2], "b3")>>],
     Block("b2", "openQuestion", QuestionText, "b3"),
     Block("b3", "end", EndText, "")>>}

LiveEditInit ==
  /\ blocks \in LiveGraphs
  /\ variables \in VarStores
  /\ EditorIdle
  /\ PreviewIdle
  /\ lastOp = Op("init", "", <<>>, <<>>, FALSE)

LiveEditNext ==
  \/ StartChat
  \/ HandleSendMessage(<<"A", "d", "a">>)
  \/ \E i \in 1..2 : HandleChoiceClick(i)
  \/ \E t \in timers : TimerFires(t)
  \/ \E id \in BlockIds(blocks) : HandleBlockDelete(id)
  \/ \E id \in BlockIds(blocks) : EditContent(id, EditedText)

LiveEditSpec == LiveEditInit /\ [][LiveEditNext]_vars

(***************************************************************************)
(* TranscriptSpec: the preview panel with the id of each ChatMessage.      *)
(* addBotMessage, addUserMessage, addErrorMessage and addImageMessage push *)
(* { id: `msg_${Date.now()}`, type, content }.  The entries one handler    *)
(* pushes are stamped with the clock value the handler runs at; the next   *)
(* handler runs at a later clock value.                                    *)
(***************************************************************************)
MaxStamp == 5   \* no handler runs at a later clock value than this

\* the transcript with the id of the entries pushed at clock value `clock`
Stamped(ms, clock) ==
  [i \in 1..Len(ms) |->
     IF "id" \in DOMAIN ms[i] THEN ms[i]
     ELSE [id |-> "msg_" \o ToString(clock), type |-> ms[i].type,
           content |-> ms[i].content]]

\* a handler that leaves the panel as r has run at clock value now
StampedStep(r, op) ==
  /\ now < MaxStamp
  /\ SetPanel([r EXCEPT !.messages = Stamped(@, now)])
  /\ lastOp' = op
  /\ now' = now + 1
  /\ UNCHANGED <<blocks, connections, selectedBlockId, contextMenuBlockId, copiedBlock,
                 connectingFrom>>

TranscriptNext ==
  \/ /\ StartButtonShown
     /\ LET r == startChat(Panel, blocks) IN
          StampedStep(r, Op("startChat", "", <<>>, r.path, FALSE))
  \/ \E text \in {<<"A", "d", "a">>} :
       /\ isWaitingForInput
       /\ LET r == handleSendMessage(Panel, blocks, text) IN
            StampedStep(r, Op("handleSendMessage", "", text, r.path, FALSE))
  \/ \E i \in 1..Len(currentChoices) :
       LET r == handleChoiceClick(Panel, blocks, currentChoices[i]) IN
         StampedStep(r, Op("handleChoiceClick", currentChoices[i].id, <<>>, r.path, FALSE))
  \/ \E t \in timers :
       LET r == runTimer(Panel, blocks, t) IN
         StampedStep(r, Op("timer", t.block.id, <<>>, r.path, FALSE))

TranscriptSpec == RunInit /\ [][TranscriptNext]_vars

(***************************************************************************)
(* ConnectSpec: the connect gesture of the canvas on graphs of three       *)
(* blocks, none connected yet: a click on an output handle, a click on an  *)
(* input handle, the removal of a connection.                              *)
(***************************************************************************)
ConnectGraphs ==
  {<<Block("b1", "message", MessageText, ""),
     Block("b2", "message", MessageText, ""),
     Block("b3", "end", EndText, "")>>,
   <<[Block("b1", "choiceQuestion", ChoiceText, "") EXCEPT
        !.hasChoices = TRUE,
        !.choices = <<Choice(ChoiceIds[1], ChoiceLabels[1], ""),
                      Choice(ChoiceIds[2], ChoiceLabels[2], "")>>],
     Block("b2", "message", MessageText, ""),
     Block("b3", "end", EndText, "")>>,
   <<[Block("b1", "condition", <<>>, "") EXCEPT
        !.hasConditions = TRUE,
        !.conditions = <<Condition(CondIds[1], VarN, "==", <<"7">>, "")>>],
     Block("b2", "message", MessageText, ""),
     Block("b3", "end", EndText, "")>>,
   <<Block("b1", "message", MessageText, ""),
     Block("b1", "message", MessageText, ""),
     Block("b3", "message", MessageText, "")>>}

ConnectInit ==
  /\ blocks \in ConnectGraphs
  /\ variables = Store({})
  /\ EditorIdle
  /\ PreviewIdle
  /\ lastOp = Op("init", "", <<>>, <<>>, FALSE)

ConnectNext ==
  \/ Tick
  \/ \E id \in BlockIds(blocks) :
       \E out \in OutputHandles(FindBlock(blocks, id)) : HandleConnectStart(id, out)
  \/ \E id \in BlockIds(blocks) : HandleInputClick(id)
  \/ \E id \in ConnectionIds(connections) : DeleteSelectedConnection(id)

ConnectSpec == ConnectInit /\ [][ConnectNext]_vars

(***************************************************************************)
(* ExprSpec: the two functions of utils/interpolation.ts applied to a      *)
(* store.  lastOp holds the call that was made last: its arguments and     *)
(* what it returned.                                                       *)
(***************************************************************************)
VarM == <<"m">>
VarDigit == <<"7">>

ExprStores ==
  {Store({}),
   Store({Variable(VarN, "number", JsNum(15))}),
   Store({Variable(VarN, "number", JsNum(0))}),
   Store({Variable(VarN, "number", JsNull)}),
   Store({Variable(VarN, "string", JsStr(<<"B">>))}),
   Store({Variable(VarN, "string", JsStr(<<"{", "{", "m", "}", "}">>)),
          Variable(VarM, "string", JsStr(<<"B">>))}),
   Store({Variable(VarN, "string", JsStr(<<"m">>)),
          Variable(VarM, "string", JsStr(<<"B">>))}),
   Store({Variable(VarDigit, "string", JsStr(<<"B">>))})}

ExprNames == {VarN, VarM, VarStale}
ExprOperators == {"==", "!=", ">", "<", ">=", "<=", "~"}
ExprValues == {<<"1", "0">>, <<"1", "5">>, <<"2", "0">>, <<"0">>,
               <<"A", "d", "a">>, <<"B">>, <<>>}
ExprTexts ==
  {<<>>,
   <<"H">>,
   <<"{", "{", "n", "}", "}">>,
   <<"H", "{", "{", "n", "}", "}", " ", "{", "{", "m", "}", "}">>,
   <<"{", "{", "7", "}", "}">>,
   <<"{", "{">> \o VarStale \o <<"}", "}">>,
   <<"{", "{", "{", "{", "n", "}", "}", "}", "}">>,
   <<"{", "{", " ", "n", "}", "}">>,
   <<"{", "{", "n", "}">>,
   <<"{", "n", "}", "}">>,
   <<"{", "{", "}", "}">>}

Call(op, name, operator, value, result, text, out, origin, again) ==
  [op |-> op, name |-> name, operator |-> operator, value |-> value,
   result |-> result, text |-> text, out |-> out, origin |-> origin, again |-> again]

ExprInit ==
  /\ blocks = <<>>
  /\ variables \in ExprStores
  /\ EditorIdle
  /\ PreviewIdle
  /\ lastOp = Call("init", <<>>, "", <<>>, FALSE, <<>>, <<>>, <<>>, FALSE)

\* a call evaluateCondition(name, operator, value, variables)
EvaluateCondition(name, operator, value) ==
  /\ lastOp' = Call("evaluateCondition", name, operator, value,
                    evaluateCondition(name, operator, JsStr(value), variables),
                    <<>>, <<>>, <<>>, FALSE)
  /\ UNCHANGED <<appVars, canvasVars, now, previewVars>>

\* a call interpolateText(text, variables)
InterpolateText(text) ==
  /\ lastOp' = Call("interpolateText", <<>>, "", <<>>, FALSE,
                    text, interpolateText(text, variables), <<>>, FALSE)
  /\ UNCHANGED <<appVars, canvasVars, now, previewVars>>

\* a call of interpolateText on what the last call of it returned
InterpolateAgain ==
  /\ lastOp.op = "interpolateText"
  /\ ~lastOp.again
  /\ lastOp' = Call("interpolateText", <<>>, "", <<>>, FALSE,
                    lastOp.out, interpolateText(lastOp.out, variables),
                    lastOp.text, TRUE)
  /\ UNCHANGED <<appVars, canvasVars, now, previewVars>>

ExprNext ==
  \/ \E name \in ExprNames, operator \in ExprOperators, value \in ExprValues :
       EvaluateCondition(name, operator, value)
  \/ \E text \in ExprTexts : InterpolateText(text)
  \/ InterpolateAgain

ExprSpec == ExprInit /\ [][ExprNext]_vars

(***************************************************************************)
(* The variables panel (VariablesPanel.vue) and the handlers of App.vue it *)
(* reaches.                                                                *)
(***************************************************************************)
\* /^[a-zA-Z_][a-zA-Z0-9_]*$/.test(name)
IsIdentifier(name) ==
  /\ name # <<>>
  /\ name[1] \in LowerChars \cup UpperChars \cup {"_"}
  /\ \A i \in 2..Len(name) : name[i] \in WordChars

\* App.vue addVariable(name, type)
addVariable(store, name, type) ==
  [key \in DOMAIN store \cup {name} |->
     IF key = name
     THEN Variable(name, type, IF type = "number" THEN JsNum(0) ELSE JsStr(<<>>))
     ELSE store[key]]

\* App.vue removeVariable(name): delete variables.value[name]
removeVariable(store, name) == [key \in DOMAIN store \ {name} |-> store[key]]

\* the panel's addVariable without its test for a variable of that name
AddVariableResult_Overwrite(store, text) ==
  LET name == Trim(text) IN
    IF name = <<>> THEN "EmptyName"
    ELSE IF ~IsIdentifier(name) THEN "InvalidName"
    ELSE "ok"

\* the alert the panel's addVariable ends with, or "ok" when it emits add-variable
AddVariableResult(store, text) ==
  LET name == Trim(text) IN
    IF name = <<>> THEN "EmptyName"
    ELSE IF HasVariable(store, name) THEN "DuplicateName"
    ELSE IF ~IsIdentifier(name) THEN "InvalidName"
    ELSE "ok"

\* what a handler of the variables panel did: the text of the name field, the type
\* chosen and the outcome
StoreOp(op, text, type, result) ==
  [op |-> op, id |-> "", text |-> text, path |-> <<>>, returned |-> result # "ok",
   type |-> type, result |-> result]

\* the panel's addVariable with text in the name field and type selected
AddVariable(text, type) ==
  /\ variables' = IF AddVariableResult(variables, text) = "ok"
                  THEN addVariable(variables, Trim(text), type)
                  ELSE variables
  /\ lastOp' = StoreOp("addVariable", text, type, AddVariableResult(variables, text))
  /\ UNCHANGED <<blocks, connections, selectedBlockId, contextMenuBlockId, copiedBlock,
                 canvasVars, now, previewVars>>

\* the remove button of a variable the panel lists, the dialog confirmed
RemoveVariable(name) ==
  /\ name \in DOMAIN variables
  /\ variables' = removeVariable(variables, name)
  /\ lastOp' = StoreOp("removeVariable", name, "", "ok")
  /\ UNCHANGED <<blocks, connections, selectedBlockId, contextMenuBlockId, copiedBlock,
                 canvasVars, now, previewVars>>

\* the panel's updateVariable(name, value)
updateVariable(store, name, value) ==
  [store EXCEPT ![name].value =
     IF store[name].type = "number" THEN ToNumber(JsStr(value)) ELSE JsStr(value)]

\* what the value field of a variable can hold: an input of type number holds a
\* numeric text or nothing
FieldTexts(type) ==
  IF type = "number" THEN {<<>>, <<"7">>} ELSE {<<>>, <<"7">>, <<"B">>}

\* typing text into the value field of a variable the panel lists
UpdateVariable(name, text) ==
  /\ name \in DOMAIN variables
  /\ text \in FieldTexts(variables[name].type)
  /\ variables' = updateVariable(variables, name, text)
  /\ lastOp' = StoreOp("updateVariable", name, variables[name].type, "ok")
  /\ UNCHANGED <<blocks, connections, selectedBlockId, contextMenuBlockId, copiedBlock,
                 canvasVars, now, previewVars>>

(***************************************************************************)
(* StoreSpec: a preview run while the variables panel edits the shared     *)
(* store (both panels stay mounted: App.vue shows them with v-show).       *)
(***************************************************************************)
VarName == <<"n", "a", "m", "e">>
Placeholder(name) == <<"{", "{">> \o name \o <<"}", "}">>
HiText  == <<"H", "i", " ">> \o Placeholder(VarName)
AskText == <<"N", "a", "m", "e", "?">>
ByeText == <<"B", "y", "e", " ">> \o Placeholder(VarName)

\* Message("Hi {{name}}") -> OpenQuestion("Name?", name) -> End("Bye {{name}}")
GreetingGraph ==
  <<Block("b1", "message", HiText, "b2"),
    [Block("b2", "openQuestion", AskText, "b3") EXCEPT !.variableName = VarName],
    Block("b3", "end", ByeText, "")>>

\* the graphs of StoreSpec: the greeting, two questions in a row that store into
\* name, and a setVariable block followed by a question
StoreGraphs ==
  {GreetingGraph,
   <<[Block("b1", "openQuestion", AskText, "b2") EXCEPT !.variableName = VarName],
     [Block("b2", "openQuestion", HiText, "b3") EXCEPT !.variableName = VarName],
     Block("b3", "end", ByeText, "")>>,
   <<[Block("b1", "setVariable", <<>>, "b2") EXCEPT
        !.variableName = VarName, !.variableValue = <<"7">>],
     [Block("b2", "openQuestion", HiText, "b3") EXCEPT !.variableName = VarName],
     Block("b3", "end", ByeText, "")>>}

StoreStores ==
  {Store({}),
   Store({Variable(VarName, "string", JsNull)}),
   Store({Variable(VarName, "number", JsNum(0))})}

\* the texts typed into the name field of the variables panel
NameTexts == {<<>>, VarName, <<" ">> \o VarName \o <<" ">>, <<"7">>, VarStale}

\* the texts a tester answers with
AnswerTexts == {<<"A", "d", "a">>, <<" ", "7", " ">>}

StoreInit ==
  /\ blocks \in StoreGraphs
  /\ variables \in StoreStores
  /\ EditorIdle
  /\ PreviewIdle
  /\ lastOp = Op("init", "", <<>>, <<>>, FALSE)

StoreNext ==
  \/ StartChat
  \/ \E text \in AnswerTexts : HandleSendMessage(text)
  \/ \E t \in timers : TimerFires(t)
  \/ \E text \in NameTexts, type \in {"string", "number"} : AddVariable(text, type)
  \/ \E name \in DOMAIN variables : RemoveVariable(name)
  \/ \E name \in DOMAIN variables, text \in FieldTexts("string") : UpdateVariable(name, text)

StoreSpec == StoreInit /\ [][StoreNext]_vars

(***************************************************************************)
(* GreetingSpec: runs of the greeting while the variables panel removes    *)
(* and edits variables; a callback handed to setTimeout runs in the end.   *)
(***************************************************************************)
GreetingInit ==
  /\ blocks = GreetingGraph
  /\ variables \in StoreStores
  /\ EditorIdle
  /\ PreviewIdle
  /\ lastOp = Op("init", "", <<>>, <<>>, FALSE)

GreetingNext ==
  \/ StartChat
  \/ \E text \in AnswerTexts : HandleSendMessage(text)
  \/ \E t \in timers : TimerFires(t)
  \/ \E name \in DOMAIN variables : RemoveVariable(name)
  \/ \E name \in DOMAIN variables, text \in FieldTexts("string") : UpdateVariable(name, text)

GreetingSpec ==
  GreetingInit /\ [][GreetingNext]_vars /\ WF_vars(\E t \in timers : TimerFires(t))

(***************************************************************************)
(* Export and import of the project (App.vue).                             *)
(***************************************************************************)
\* what JSON.parse reads back of what JSON.stringify writes for a value: a
\* string, a finite number and null as they are, NaN and the infinities as
\* null; a property that is undefined is left out and reads as undefined
JsonValue(v) == IF v.k \in {"nan", "inf"} THEN JsNull ELSE v

\* the same for a list of blocks or connections and for the variables object:
\* ids, texts and types are strings, the lists are arrays of such records
JsonRecords(list) == [i \in 1..Len(list) |-> list[i]]
JsonVariables(store) ==
  [key \in DOMAIN store |-> [store[key] EXCEPT !.value = JsonValue(@)]]

\* exportJSON: the project as the downloaded file holds it
exportJSON(bs, conns, store) ==
  [blocks |-> JsonRecords(bs), connections |-> JsonRecords(conns),
   variables |-> JsonVariables(store)]

\* "Importar JSON" with the file that "Exportar JSON" has just written: its three
\* parts are an array, an array and an object, so each of them is assigned
ImportJSON ==
  LET data == exportJSON(blocks, connections, variables) IN
    /\ blocks' = data.blocks
    /\ connections' = data.connections
    /\ variables' = data.variables
    /\ selectedBlockId' = ""
    /\ lastOp' = Op("importJSON", "", <<>>, <<>>, FALSE)
    /\ UNCHANGED <<contextMenuBlockId, copiedBlock, connectingFrom, now, previewVars>>

(***************************************************************************)
(* ProjectSpec: preview runs on a project that is exported and imported    *)
(* between and during them.                                                *)
(***************************************************************************)
ProjectGraphs ==
  {<<Block("b1", "message", MessageText, "b2"),
     [Block("b2", "openQuestion", QuestionText, "b3") EXCEPT !.variableName = VarN],
     Block("b3", "end", EndText, "")>>,
   <<[Block("b1", "openQuestion", QuestionText, "b2") EXCEPT !.variableName = VarN],
     Block("b2", "end", EndText, "")>>}

ProjectStores ==
  {Store({}),
   Store({Variable(VarN, "number", JsNum(0))}),
   Store({Variable(VarN, "string", JsStr(<<>>))})}

ProjectTexts == {InfinityText, <<" ", "7", " ">>, <<"A", "d", "a">>}

ProjectInit ==
  /\ blocks \in ProjectGraphs
  /\ variables \in ProjectStores
  /\ EditorIdle
  /\ PreviewIdle
  /\ lastOp = Op("init", "", <<>>, <<>>, FALSE)

ProjectNext ==
  \/ StartChat
  \/ \E text \in ProjectTexts : HandleSendMessage(text)
  \/ \E t \in timers : TimerFires(t)
  \/ ImportJSON

ProjectSpec == ProjectInit /\ [][ProjectNext]_vars

(***************************************************************************)
(* Properties of the editor and of the preview panel.                      *)
(***************************************************************************)
\* no successor reference of bs and no connection of conns names id
NoReferenceTo(bs, conns, id) ==
  /\ \A i \in 1..Len(bs) :
       /\ bs[i].nextBlockId # id
       /\ \A j \in 1..Len(bs[i].choices) : bs[i].choices[j].nextBlockId # id
       /\ \A j \in 1..Len(bs[i].conditions) : bs[i].conditions[j].nextBlockId # id
  /\ \A i \in 1..Len(conns) :
       conns[i].fromBlockId # id /\ conns[i].toBlockId # id

\* C1: deleting a step (handleBlockDelete or deleteBlockFromMenu) cascades: right
\* after the deletion no remaining step has the deleted id as nextBlockId, no choice
\* and no condition has it as nextBlockId, and no connection starts or ends at it.
C1_DeleteCascades ==
  [][\A id \in BlockIds(blocks) :
       (HandleBlockDelete(id) \/ DeleteBlockFromMenu(id))
         => NoReferenceTo(blocks', connections', id)]_vars

\* the state of the run: a pending callback is a step in progress
RunState ==
  IF ~isRunning THEN (IF messages = <<>> THEN "Idle" ELSE "Finished")
  ELSE IF timers # {} THEN "Running"
  ELSE IF isWaitingForInput THEN "AwaitingTextInput"
  ELSE IF currentChoices # <<>> THEN "AwaitingChoice"
  ELSE "Running"

\* the transcript entry of an error
ErrorEntry(text) == ChatMessage("bot", WarningSign \o text)

\* the run has ended and shows neither the input field nor a choice button
Ended == ~isRunning /\ ~isWaitingForInput /\ currentChoices = <<>> /\ timers = {}

MissingNext(id) == id # "" /\ id \notin BlockIds(blocks)

PreviewState ==
  <<messages, currentBlockId, isWaitingForInput, currentChoices,
    sessionVariables, isRunning, timers, variables>>

\* C2: start() on a graph with no step appends exactly one error entry and leaves
\* the run ended (not running, not awaiting text, no choice shown).
C2_EmptyGraphStartFinishes ==
  (blocks = <<>> /\ lastOp.op = "startChat")
    => /\ messages = <<ErrorEntry(ErrNoBlocks)>>
       /\ ~isRunning
       /\ ~isWaitingForInput
       /\ currentChoices = <<>>

\* the entry a message or image block left before its callback runs
OwnEntryIsLast(b) ==
  CASE b.type = "message" ->
         /\ messages # <<>>
         /\ messages[Len(messages)] =
              ChatMessage("bot", interpolateText(b.content, sessionVariables))
    [] b.type = "image" ->
         /\ messages # <<>>
         /\ messages[Len(messages)] \in
              {ChatMessage("image", b.imageUrl), ErrorEntry(ErrNoImage)}
    [] OTHER -> TRUE

C3_AdvanceToMissing ==
  \A t \in timers :
    (TimerFires(t) /\ t.kind = "advance" /\ MissingNext(t.block.nextBlockId))
      => /\ OwnEntryIsLast(t.block)
         /\ messages' = Append(messages, ErrorEntry(ErrMissingTarget))
         /\ Ended'
         /\ UNCHANGED <<variables, sessionVariables>>

C3_AnswerToMissing ==
  \A text \in Texts :
    (/\ HandleSendMessage(text)
     /\ isWaitingForInput /\ Trim(text) # <<>>
     /\ currentBlockId \in BlockIds(blocks)
     /\ MissingNext(FindBlock(blocks, currentBlockId).nextBlockId))
      => /\ Len(messages') = Len(messages) + 2
         /\ SubSeq(messages', 1, Len(messages)) = messages
         /\ messages'[Len(messages) + 1].type = "user"
         /\ messages'[Len(messages) + 2] = ErrorEntry(ErrMissingTarget)
         /\ Ended'

C3_EndedIsFrozen ==
  (RunState = "Finished" /\ ~StartChat)
    => UNCHANGED <<messages, variables, sessionVariables, isRunning,
                   isWaitingForInput, currentChoices, timers>>

C3_EntryMessage ==
  (/\ blocks # <<>>
   /\ StartBlock(blocks).type = "message"
   /\ MissingNext(StartBlock(blocks).nextBlockId)
   /\ RunState = "Finished")
    => messages = <<ChatMessage("bot", interpolateText(StartBlock(blocks).content,
                                                        sessionVariables)),
                    ErrorEntry(ErrMissingTarget)>>

\* C3: when a step with one exit (message, setVariable, image, answered open
\* question) names a next block that is not in the graph, exactly one error entry
\* is appended after the step's own entry and the run ends; an ended run gets no
\* further entry and no variable changes until the next start; for an entry message
\* the final transcript is exactly its bot entry followed by the error entry.
C3_MissingSuccessor ==
  /\ [][C3_AdvanceToMissing /\ C3_AnswerToMissing /\ C3_EndedIsFrozen]_vars
  /\ [](C3_EntryMessage)

C3_Witness ==
  /\ blocks # <<>>
  /\ StartBlock(blocks).type = "message"
  /\ MissingNext(StartBlock(blocks).nextBlockId)
  /\ lastOp.op = "timer"
  /\ lastOp.id = StartBlock(blocks).id
  /\ Ended
  /\ Len(messages) = 2
  /\ messages[2] = ErrorEntry(ErrMissingTarget)

\* C4: handleSendMessage outside AwaitingTextInput (Idle, Running, AwaitingChoice,
\* Finished) changes nothing: transcript, session snapshot, shared variables,
\* current block and state of the run stay as they are.
C4_SendIgnoredUnlessAwaitingText ==
  [][\A text \in Texts :
       (HandleSendMessage(text) /\ RunState # "AwaitingTextInput")
         => UNCHANGED PreviewState]_vars

C4_Witness ==
  /\ lastOp.op = "handleSendMessage"
  /\ lastOp.returned
  /\ RunState = "Finished"
  /\ messages # <<>>

TrueBranches(c, store) ==
  {i \in 1..Len(c.conditions) :
     evaluateCondition(c.conditions[i].variableName, c.conditions[i].operator,
                       JsStr(c.conditions[i].value), store)}

Lowest(S) == CHOOSE i \in S : \A j \in S : i <= j

\* C6: a condition block takes the first condition, in list order, that holds: the
\* block processed right after it is the nextBlockId of the lowest-index condition
\* that holds, also when a later condition holds too.
C6_FirstMatchWins ==
  [][LET path == lastOp'.path
         store == IF lastOp'.op = "startChat" THEN variables ELSE sessionVariables
     IN \A k \in 1..Len(path) :
          LET c == FindBlock(blocks, path[k]) IN
            (c.type = "condition" /\ TrueBranches(c, store) # {})
              => LET n == c.conditions[Lowest(TrueBranches(c, store))].nextBlockId IN
                   IF n \in BlockIds(blocks)
                   THEN k < Len(path) /\ path[k + 1] = n
                   ELSE k = Len(path)]_vars

\* n = 15 against [(n > 10 -> b2), (n > 0 -> b3)]: b2 is processed
C6_Witness ==
  /\ Len(blocks) = 3
  /\ blocks[1].type = "condition"
  /\ blocks[1].conditions[1].nextBlockId = "b2"
  /\ blocks[1].conditions[2].nextBlockId = "b3"
  /\ HasVariable(sessionVariables, VarN)
  /\ sessionVariables[VarN].value = JsNum(15)
  /\ TrueBranches(blocks[1], sessionVariables) = {1, 2}
  /\ lastOp.path = <<"b1", "b2">>

\* C7: a condition block none of whose conditions holds (the list may be empty or
\* absent) appends exactly one error entry and ends the run; no further block is
\* processed and no step is scheduled.
C7_NoBranchIsError ==
  [][LET path == lastOp'.path
         store == IF lastOp'.op = "startChat" THEN variables ELSE sessionVariables
         base == IF lastOp'.op = "startChat" THEN <<>> ELSE messages
     IN \A k \in 1..Len(path) :
          LET c == FindBlock(blocks, path[k]) IN
            (c.type = "condition" /\ TrueBranches(c, store) = {})
              => /\ k = Len(path)
                 /\ messages' = Append(base, ErrorEntry(ErrNoCondition))
                 /\ Ended']_vars

C7_Witness ==
  /\ lastOp.path # <<>>
  /\ LET c == FindBlock(blocks, lastOp.path[Len(lastOp.path)]) IN
       /\ c.type = "condition"
       /\ Len(c.conditions) = 2
       /\ c.conditions[2].nextBlockId \in BlockIds(blocks)
       /\ TrueBranches(c, sessionVariables) = {}
  /\ messages # <<>>
  /\ messages[Len(messages)] = ErrorEntry(ErrNoCondition)
  /\ Ended

\* C8: a choice question with no choice appends its bot entry and then an error
\* entry, shows no choice and ends the run; with at least one choice it appends its
\* bot entry, shows exactly its choices in list order and awaits the choice.
C8_ChoiceQuestion ==
  [][LET path == lastOp'.path
         store == IF lastOp'.op = "startChat" THEN variables ELSE sessionVariables
         base == IF lastOp'.op = "startChat" THEN <<>> ELSE messages
     IN \A k \in 1..Len(path) :
          LET c == FindBlock(blocks, path[k])
              entry == ChatMessage("bot", interpolateText(c.content, store))
          IN c.type = "choiceQuestion"
               => /\ k = Len(path)
                  /\ IF Len(c.choices) = 0
                     THEN /\ messages' = base \o <<entry, ErrorEntry(ErrNoChoices)>>
                          /\ Ended'
                          /\ RunState' = "Finished"
                     ELSE /\ messages' = Append(base, entry)
                          /\ currentChoices' = c.choices
                          /\ RunState' = "AwaitingChoice"]_vars

C8_Witness ==
  /\ lastOp.path # <<>>
  /\ LET c == FindBlock(blocks, lastOp.path[Len(lastOp.path)]) IN
       c.type = "choiceQuestion" /\ Len(c.choices) = 0
  /\ Len(messages) >= 2
  /\ messages[Len(messages)] = ErrorEntry(ErrNoChoices)
  /\ RunState = "Finished"
  /\ currentChoices = <<>>

C9_Click ==
  \A i \in 1..2 :
    HandleChoiceClick(i) =>
      LET c == currentChoices[i]
          entry == ChatMessage("user", c.label)
      IN /\ currentChoices' = <<>>
         /\ CASE c.nextBlockId = "" ->
                   /\ messages' = messages \o <<entry, ErrorEntry(ErrChoiceNoTarget)>>
                   /\ Ended'
              [] MissingNext(c.nextBlockId) ->
                   /\ messages' = messages \o <<entry, ErrorEntry(ErrMissingTarget)>>
                   /\ Ended'
              [] OTHER ->
                   /\ messages' = Append(messages, entry)
                   /\ currentBlockId' = c.nextBlockId
                   /\ RunState' = "Running"

C9_Resume ==
  \A t \in timers :
    (TimerFires(t) /\ lastOp.op = "handleChoiceClick")
      => /\ lastOp'.path # <<>>
         /\ lastOp'.path[1] = currentBlockId
         /\ \E i \in 1..Len(blocks) :
              \E j \in 1..Len(blocks[i].choices) :
                /\ blocks[i].choices[j].id = lastOp.id
                /\ blocks[i].choices[j].nextBlockId = currentBlockId

\* C9: a click on a choice appends one user entry holding the choice's label as
\* written (not interpolated) and clears the choices shown; a choice without
\* nextBlockId appends the "choice without target" error and ends the run, a
\* nextBlockId that is in the graph makes the run go on from exactly that block, a
\* nextBlockId that is not appends the "target not found" error and ends the run.
C9_ChoiceTaken == [][C9_Click /\ C9_Resume]_vars

C9_Witness ==
  /\ Len(blocks) = 3
  /\ blocks[1].type = "choiceQuestion"
  /\ blocks[1].choices[1].nextBlockId = "b3"
  /\ blocks[1].choices[2].nextBlockId = "b2"
  /\ HasVariable(sessionVariables, VarN)
  /\ lastOp.op = "handleChoiceClick"
  /\ lastOp.id = ChoiceIds[1]
  /\ messages[Len(messages)] = ChatMessage("user", ChoiceLabels[1])
  /\ currentBlockId = "b3"
  /\ currentChoices = <<>>

\* C10 as written: handleSendMessage in AwaitingTextInput appends exactly one user
\* entry whose text is the submitted text character for character, for every text,
\* and a string variable bound to the question stores that same text.
C10_LiteralText ==
  [][\A text \in Texts :
       (HandleSendMessage(text) /\ RunState = "AwaitingTextInput")
         => /\ Len(messages') > Len(messages)
            /\ messages'[Len(messages) + 1] = ChatMessage("user", text)
            /\ \A k \in (Len(messages) + 2)..Len(messages') :
                 messages'[k].type # "user"
            /\ LET q == FindBlock(blocks, currentBlockId) IN
                 (/\ q.variableName # <<>>
                  /\ q.variableName \in DOMAIN sessionVariables
                  /\ sessionVariables[q.variableName].type = "string")
                   => sessionVariables'[q.variableName].value = JsStr(text)]_vars

\* C10, amended: handleSendMessage in AwaitingTextInput with a text that is empty
\* or white space only changes nothing; with any other text it appends exactly one
\* user entry whose text is the submitted text without its leading and trailing
\* white space, and a string variable bound to the question stores that trimmed
\* text.
C10_TrimmedText ==
  [][\A text \in Texts :
       (HandleSendMessage(text) /\ RunState = "AwaitingTextInput")
         => IF Trim(text) = <<>>
            THEN UNCHANGED PreviewState
            ELSE /\ Len(messages') > Len(messages)
                 /\ SubSeq(messages', 1, Len(messages)) = messages
                 /\ messages'[Len(messages) + 1] = ChatMessage("user", Trim(text))
                 /\ \A k \in (Len(messages) + 2)..Len(messages') :
                      messages'[k].type # "user"
                 /\ LET q == FindBlock(blocks, currentBlockId) IN
                      (/\ q.variableName # <<>>
                       /\ q.variableName \in DOMAIN sessionVariables
                       /\ sessionVariables[q.variableName].type = "string")
                        => sessionVariables'[q.variableName].value =
                             JsStr(Trim(text))]_vars

C10_Witness ==
  /\ lastOp.op = "handleSendMessage"
  /\ ~lastOp.returned
  /\ lastOp.text = <<" ", "7", " ">>
  /\ messages # <<>>
  /\ messages[Len(messages)] = ChatMessage("user", <<"7">>)
  /\ HasVariable(sessionVariables, VarN)
  /\ sessionVariables[VarN] = Variable(VarN, "string", JsStr(<<"7">>))

\* the number a text stands for, 0 when it stands for none
ParsedOrZero(text) ==
  LET v == StringToNumber(text) IN IF v.k \in {"num", "inf"} THEN v ELSE JsNum(0)

\* every variable the shared store and the session both hold is the same in both
Merged(store, session) ==
  \A key \in DOMAIN store \cap DOMAIN session : store[key] = session[key]

\* C11: in AwaitingTextInput, with the question bound to a variable the session
\* holds, handleSendMessage stores the answer by the variable's type (for a number
\* variable the number the text stands for, 0 when it stands for none; for a string
\* variable the answer's text), merges the session into the shared store, leaves
\* AwaitingTextInput, and goes on at the question's nextBlockId, or ends the run
\* without an error entry when there is none.
C11_AnswerStored ==
  [][\A text \in Texts :
       (HandleSendMessage(text) /\ RunState = "AwaitingTextInput" /\ Trim(text) # <<>>)
         => LET q == FindBlock(blocks, currentBlockId)
                name == q.variableName
            IN (q.type = "openQuestion" /\ name \in DOMAIN sessionVariables)
                 => /\ DOMAIN sessionVariables' = DOMAIN sessionVariables
                    /\ \A key \in DOMAIN sessionVariables \ {name} :
                         sessionVariables'[key] = sessionVariables[key]
                    /\ sessionVariables'[name].type = sessionVariables[name].type
                    /\ sessionVariables'[name].value =
                         IF sessionVariables[name].type = "number"
                         THEN ParsedOrZero(text)
                         ELSE JsStr(messages'[Len(messages) + 1].content)
                    /\ Merged(variables', sessionVariables')
                    /\ ~isWaitingForInput'
                    /\ CASE q.nextBlockId = "" ->
                              /\ Ended'
                              /\ Len(messages') = Len(messages) + 1
                         [] q.nextBlockId \in BlockIds(blocks) ->
                              /\ isRunning'
                              /\ Len(messages') = Len(messages) + 1
                              /\ currentBlockId' = q.nextBlockId
                              /\ timers' = {Timer("process",
                                                  FindBlock(blocks, q.nextBlockId))}
                         [] OTHER -> ~isRunning']_vars

C11_Witness ==
  /\ lastOp.op = "handleSendMessage"
  /\ lastOp.text = <<"A", "d", "a">>
  /\ VarN \in DOMAIN sessionVariables
  /\ sessionVariables[VarN] = Variable(VarN, "number", JsNum(0))
  /\ variables[VarN] = Variable(VarN, "number", JsNum(0))
  /\ messages[1] = ChatMessage("bot", <<"H", "1", "5">>)
  /\ timers # {}
  /\ RunState = "Running"

\* C12: a setVariable block stores the interpolated value coerced to the declared
\* type of its variable, so that in every state of a run a number variable of the
\* session and of the shared store holds a number (or is unset), never a text.
C12_NumberStaysNumeric ==
  /\ \A key \in DOMAIN sessionVariables :
       sessionVariables[key].type = "number"
         => sessionVariables[key].value.k \in {"num", "null"}
  /\ \A key \in DOMAIN variables :
       variables[key].type = "number" => variables[key].value.k \in {"num", "null"}

C13_SetVariableSkips ==
  LET path == lastOp'.path
      store == IF lastOp'.op = "startChat" THEN variables ELSE sessionVariables
      base == IF lastOp'.op = "startChat" THEN <<>> ELSE messages
  IN path # <<>> =>
       LET b == FindBlock(blocks, path[Len(path)]) IN
         (/\ b.type = "setVariable"
          /\ b.variableName # <<>>
          /\ b.variableName \notin DOMAIN store)
           => /\ messages' = base
              /\ sessionVariables' = store
              /\ isRunning'
              /\ Timer("advance", b) \in timers'

C13_AnswerNotStored ==
  \A text \in Texts :
    (HandleSendMessage(text) /\ RunState = "AwaitingTextInput" /\ Trim(text) # <<>>)
      => LET q == FindBlock(blocks, currentBlockId) IN
           (/\ q.type = "openQuestion"
            /\ q.variableName # <<>>
            /\ q.variableName \notin DOMAIN sessionVariables)
             => /\ sessionVariables' = sessionVariables
                /\ variables' = variables
                /\ q.nextBlockId \in BlockIds(blocks)
                     => /\ isRunning'
                        /\ currentBlockId' = q.nextBlockId
                        /\ timers' # {}

C13_BranchIsFalse ==
  LET path == lastOp'.path
      store == IF lastOp'.op = "startChat" THEN variables ELSE sessionVariables
  IN \A k \in 1..Len(path) :
       LET c == FindBlock(blocks, path[k]) IN
         c.type = "condition"
           => \A i \in 1..Len(c.conditions) :
                c.conditions[i].variableName \notin DOMAIN store
                  => /\ i \notin TrueBranches(c, store)
                     /\ (Len(c.conditions) = 1 => k = Len(path))

C13_NothingAdded ==
  /\ DOMAIN variables' = DOMAIN variables
  /\ DOMAIN sessionVariables' =
       IF lastOp'.op = "startChat" THEN DOMAIN variables ELSE DOMAIN sessionVariables

\* C13: a block that names a variable the session does not hold degrades
\* gracefully: a setVariable block assigns nothing, appends no error entry and still
\* advances; an answered open question stores nothing and still advances; a
\* condition on that variable does not hold; and the variable is never added to the
\* session or to the shared store.
C13_AbsentVariable ==
  [][/\ C13_SetVariableSkips
     /\ C13_AnswerNotStored
     /\ C13_BranchIsFalse
     /\ C13_NothingAdded]_vars

\* the current value of a variable as a number, 0 when unset or no number
NumericOrZero(v) == IF v.k = "num" THEN v.n ELSE 0

\* C14: processing a math block with operator "+" adds the operand (interpolated,
\* then parsed, 0 when it stands for no number) to the current numeric value of its
\* variable (0 when unset or not numeric), stores the sum, merges the session into
\* the shared store and moves on to nextBlockId: with the variable unset and the
\* operand "5" the variable is 5 afterwards and the run has moved past the block.
C14_MathAdds ==
  [][LET path == lastOp'.path
         store == IF lastOp'.op = "startChat" THEN variables ELSE sessionVariables
     IN path # <<>> =>
          LET b == FindBlock(blocks, path[Len(path)]) IN
            (/\ b.type = "math"
             /\ b.mathOperation = <<"+">>
             /\ b.variableName \in DOMAIN store)
              => /\ sessionVariables'[b.variableName].value =
                      JsNum(NumericOrZero(store[b.variableName].value)
                            + ParsedOrZero(interpolateText(b.mathValue, store)).n)
                 /\ Merged(variables', sessionVariables')
                 /\ (Timer("advance", b) \in timers' \/ ~isRunning')]_vars

\* C15: processing an end block always ends the run without an error: it appends
\* one interpolated bot entry iff its content is not empty and nothing else, follows
\* no successor (also when the block carries a nextBlockId), and leaves the run
\* ended with no input awaited and no choice shown.
C15_EndFinishes ==
  [][LET path == lastOp'.path
         store == IF lastOp'.op = "startChat" THEN variables ELSE sessionVariables
         base == IF lastOp'.op = "startChat" THEN <<>> ELSE messages
     IN \A k \in 1..Len(path) :
          LET b == FindBlock(blocks, path[k]) IN
            b.type = "end"
              => /\ k = Len(path)
                 /\ messages' =
                      IF b.content # <<>>
                      THEN Append(base, ChatMessage("bot", interpolateText(b.content, store)))
                      ELSE base
                 /\ Ended'
                 /\ currentBlockId' = b.id]_vars

C15_Witness ==
  /\ lastOp.path # <<>>
  /\ LET b == FindBlock(blocks, lastOp.path[Len(lastOp.path)]) IN
       /\ b.type = "end"
       /\ b.content = EndText
       /\ b.nextBlockId \in BlockIds(blocks)
       /\ currentBlockId = b.id
  /\ VarN \in DOMAIN sessionVariables
  /\ sessionVariables[VarN].value = JsNum(15)
  /\ messages = <<ChatMessage("bot", <<"B", "1", "5">>)>>
  /\ Ended

C16_ImageEntry ==
  LET path == lastOp'.path
      base == IF lastOp'.op = "startChat" THEN <<>> ELSE messages
  IN path # <<>> =>
       LET b == FindBlock(blocks, path[Len(path)])
           source == IF b.imageData # <<>> THEN b.imageData ELSE b.imageUrl
       IN b.type = "image"
            => /\ messages' = Append(base, IF source # <<>>
                                           THEN ChatMessage("image", source)
                                           ELSE ErrorEntry(ErrNoImage))
               /\ isRunning'
               /\ timers' = {Timer("advance", b)}

C16_ImageAdvances ==
  \A t \in timers :
    (TimerFires(t) /\ t.kind = "advance" /\ t.block.type = "image")
      => CASE t.block.nextBlockId = "" ->
                messages' = messages /\ Ended'
           [] t.block.nextBlockId \in BlockIds(blocks) ->
                /\ lastOp'.path # <<>>
                /\ lastOp'.path[1] = t.block.nextBlockId
                /\ SubSeq(messages', 1, Len(messages)) = messages
           [] OTHER ->
                /\ messages' = Append(messages, ErrorEntry(ErrMissingTarget))
                /\ Ended'

\* C16: processing an image block appends one image entry carrying its image
\* source when it has one, else one error entry for the missing image; either way
\* the run goes on as after a message block: to nextBlockId, ended without an
\* error when there is none, ended with the "target not found" error when
\* nextBlockId is not in the graph.
C16_Image == [][C16_ImageEntry /\ C16_ImageAdvances]_vars

C16_Witness ==
  /\ lastOp.op = "timer"
  /\ lastOp.id \in BlockIds(blocks)
  /\ LET b == FindBlock(blocks, lastOp.id) IN
       /\ b.type = "image"
       /\ b.imageUrl = <<>> /\ b.imageData = <<>>
       /\ b.nextBlockId \in BlockIds(blocks)
       /\ lastOp.path = <<b.nextBlockId>>
       /\ FindBlock(blocks, b.nextBlockId).type = "end"
  /\ messages = <<ErrorEntry(ErrNoImage), ChatMessage("bot", EndText)>>
  /\ Ended

\* the store holds a variable of that name whose value is set
IsSet(store, name) == name \in DOMAIN store /\ store[name].value # JsNull

ComparisonOperators == {"==", "!=", ">", "<", ">=", "<="}

\* C17: evaluateCondition returns false, for each of the six operators and every
\* comparison value, whenever the store holds no variable of the name or its value
\* is unset; and it returns false for every operator other than the six.
C17_FalseWhenAbsentOrUnset ==
  lastOp.op = "evaluateCondition"
    => /\ ~IsSet(variables, lastOp.name) => lastOp.result = FALSE
       /\ lastOp.operator \notin ComparisonOperators => lastOp.result = FALSE

\* a text that is a numeric literal: digits with an optional sign
IsNumericLiteral(text) ==
  \/ AllDigits(text)
  \/ text # <<>> /\ Head(text) \in {"+", "-"} /\ AllDigits(Tail(text))

\* the number a numeric literal stands for
LiteralValue(text) ==
  IF AllDigits(text) THEN DigitsToNat(text)
  ELSE IF Head(text) = "-" THEN 0 - DigitsToNat(Tail(text))
  ELSE DigitsToNat(Tail(text))

NumberCompare(operator, a, b) ==
  CASE operator = "==" -> a = b
    [] operator = "!=" -> a # b
    [] operator = ">"  -> a > b
    [] operator = "<"  -> a < b
    [] operator = ">=" -> a >= b
    [] operator = "<=" -> a <= b
    [] OTHER           -> FALSE

TextCompare(operator, a, b) ==
  CASE operator = "==" -> a = b
    [] operator = "!=" -> a # b
    [] operator = ">"  -> StringLess(b, a)
    [] operator = "<"  -> StringLess(a, b)
    [] operator = ">=" -> ~StringLess(a, b)
    [] operator = "<=" -> ~StringLess(b, a)
    [] OTHER           -> FALSE

\* C18: for a number variable with a set value, evaluateCondition returns false
\* for each of the six operators when the comparison value is no numeric literal,
\* and compares the two numbers by numeric order and equality when it is one; for
\* a string variable it compares value and comparison value as texts.
C18_TypedComparison ==
  (/\ lastOp.op = "evaluateCondition"
   /\ lastOp.operator \in ComparisonOperators
   /\ IsSet(variables, lastOp.name))
    => LET variable == variables[lastOp.name] IN
         IF variable.type = "number"
         THEN lastOp.result =
                IF IsNumericLiteral(lastOp.value)
                THEN NumberCompare(lastOp.operator, variable.value.n,
                                   LiteralValue(lastOp.value))
                ELSE FALSE
         ELSE lastOp.result =
                TextCompare(lastOp.operator, variable.value.s, lastOp.value)

\* {{identifier}} at index i of the text, identifier being [A-Za-z_][A-Za-z0-9_]*:
\* the index of its last character, or 0
PlaceholderEnd(text, i) ==
  IF /\ i + 2 <= Len(text)
     /\ text[i] = "{" /\ text[i + 1] = "{"
     /\ text[i + 2] \in LowerChars \cup UpperChars \cup {"_"}
  THEN LET j == WordRunEnd(text, i + 2) IN
         IF j + 2 <= Len(text) /\ text[j + 1] = "}" /\ text[j + 2] = "}"
         THEN j + 2 ELSE 0
  ELSE 0

\* the text with exactly the placeholders that name a variable with a set value
\* replaced by that value as a text, everything else kept
RECURSIVE Resolved(_, _, _)
Resolved(text, store, i) ==
  IF i > Len(text) THEN <<>>
  ELSE LET e == PlaceholderEnd(text, i)
           name == SubSeq(text, i + 2, e - 2)
       IN IF e # 0 /\ IsSet(store, name)
          THEN ToStringJs(store[name].value) \o Resolved(text, store, e + 1)
          ELSE IF e # 0
          THEN SubSeq(text, i, e) \o Resolved(text, store, e + 1)
          ELSE <<text[i]>> \o Resolved(text, store, i + 1)

\* C19: interpolateText replaces a placeholder {{identifier}} by the variable's
\* value as a text exactly when identifier matches [A-Za-z_][A-Za-z0-9_]* and the
\* store holds a variable of that name whose value is set; every other placeholder
\* (unknown name, unset value, identifier not of that form, malformed braces) and
\* all text outside placeholders is left as it is.
C19_ReplacesExactlyResolved ==
  lastOp.op = "interpolateText"
    => lastOp.out = Resolved(lastOp.text, variables, 1)

\* the names of the placeholders {{identifier}} of a text
PlaceholderNames(text) ==
  {SubSeq(text, i + 2, PlaceholderEnd(text, i) - 2) :
     i \in {k \in 1..Len(text) : PlaceholderEnd(text, k) # 0}}

MatchNames(text) ==
  {SubSeq(text, i + 2, MatchEnd(text, i) - 2) :
     i \in {k \in 1..Len(text) : MatchEnd(text, k) # 0}}

\* every brace of the text is part of a match of /\{\{(\w+)\}\}/
BracesInMatches(text) ==
  \A k \in 1..Len(text) :
    text[k] \in {"{", "}"}
      => \E i \in 1..k : MatchEnd(text, i) # 0 /\ k <= MatchEnd(text, i)

\* no value of the store, as a text, holds a brace
BraceFreeValues(store) ==
  \A key \in DOMAIN store :
    LET v == ToStringJs(store[key].value) IN
      \A k \in 1..Len(v) : v[k] \notin {"{", "}"}

InitialValue(type) == IF type = "number" THEN JsNum(0) ELSE JsStr(<<>>)

StoreOps == {"addVariable", "removeVariable", "updateVariable"}
PreviewOps == {"startChat", "handleSendMessage", "timer"}

\* the block processBlock was called with last in the step that ends here
LastProcessed == FindBlock(blocks, lastOp.path[Len(lastOp.path)])

\* C22: the snapshot of a run is value-isolated from the shared store.  A handler
\* of the variables panel (value edit, createVariable, removeVariable) changes
\* neither the session nor the transcript, and the text a later step shows is
\* interpolated from the session.  startChat makes the session a copy of the
\* shared store (and processes the first block, which writes to the copy when it
\* is a setVariable block).  A step of the run changes a shared value only to the session's
\* value of that variable, and a step that writes to the session (setVariable, a
\* stored answer) is followed at once by the merge: every variable both hold has
\* the session's value in the shared store.
C22_SnapshotIsolated ==
  [][/\ lastOp'.op \in StoreOps =>
          /\ sessionVariables' = sessionVariables
          /\ messages' = messages
     /\ lastOp'.op \in PreviewOps =>
          /\ lastOp'.op = "startChat" =>
               /\ DOMAIN sessionVariables' = DOMAIN variables
               /\ \A key \in DOMAIN variables :
                    \/ sessionVariables'[key] = variables[key]
                    \/ /\ LastProcessed'.type = "setVariable"
                       /\ LastProcessed'.variableName = key
          /\ \A key \in DOMAIN variables' :
               /\ key \in DOMAIN variables
               /\ \/ variables'[key].value = variables[key].value
                  \/ /\ key \in DOMAIN sessionVariables'
                     /\ variables'[key].value = sessionVariables'[key].value
          /\ sessionVariables' # (IF lastOp'.op = "startChat" THEN variables
                                   ELSE sessionVariables) =>
               \A key \in DOMAIN variables' \cap DOMAIN sessionVariables' :
                 variables'[key].value = sessionVariables'[key].value
          /\ (lastOp'.path # <<>>
              /\ LastProcessed'.type \in {"message", "openQuestion", "end"}) =>
               messages'[Len(messages')] =
                 ChatMessage("bot", interpolateText(LastProcessed'.content,
                                                    sessionVariables'))]_vars

\* the end block has shown the session's value of name after the variables panel
\* gave the shared variable another value
C22_Witness ==
  /\ lastOp.op = "timer"
  /\ lastOp.path # <<>>
  /\ LastProcessed.type = "end"
  /\ VarName \in DOMAIN variables \cap DOMAIN sessionVariables
  /\ variables[VarName].value \notin {sessionVariables[VarName].value, JsNull}
  /\ messages[Len(messages)].content =
       interpolateText(ByeText, sessionVariables)
  /\ messages[Len(messages)].content # interpolateText(ByeText, variables)

\* C23: a step of the run that merges the session back overwrites the shared value
\* of every variable that the shared store and the session both hold and adds no
\* variable: the shared store has the same variable names before and after.
C23_MergeBackAddsNothing ==
  [][lastOp'.op \in PreviewOps \cup {"handleChoiceClick"} =>
       /\ DOMAIN variables' = DOMAIN variables
       /\ variables' # variables =>
            \A key \in DOMAIN variables \cap DOMAIN sessionVariables' :
              variables'[key].value = sessionVariables'[key].value]_vars

\* C24: the type of a variable of the shared store is the type it was created
\* with: no step of a run and no value edit changes the type of a variable the
\* shared store holds (a merge-back overwrites the value only), so a variable that
\* was removed and created again with another type while a run is paused keeps
\* that type when the run merges back.
C24_TypeImmutable ==
  [][lastOp'.op \in PreviewOps \cup {"handleChoiceClick", "updateVariable"} =>
       \A key \in DOMAIN variables \cap DOMAIN variables' :
         variables'[key].type = variables[key].type]_vars

(***************************************************************************)
(* The graph the editor keeps.                                             *)
(***************************************************************************)
\* C25: every end block has no nextBlockId and no connection starts at it.
C25_EndHasNoSuccessor ==
  \A i \in 1..Len(blocks) :
    blocks[i].type = "end" =>
      /\ blocks[i].nextBlockId = ""
      /\ \A j \in 1..Len(connections) : connections[j].fromBlockId # blocks[i].id

\* the successors the blocks hold, as (block id, output id, target id), the output
\* id being "" for nextBlockId
Successors(bs) ==
  UNION {(IF bs[i].nextBlockId # "" THEN {<<bs[i].id, "", bs[i].nextBlockId>>} ELSE {})
         \cup {<<bs[i].id, bs[i].choices[k].id, bs[i].choices[k].nextBlockId>> :
                 k \in {k \in 1..Len(bs[i].choices) : bs[i].choices[k].nextBlockId # ""}}
         \cup {<<bs[i].id, bs[i].conditions[k].id, bs[i].conditions[k].nextBlockId>> :
                 k \in {k \in 1..Len(bs[i].conditions) :
                          bs[i].conditions[k].nextBlockId # ""}} :
         i \in 1..Len(bs)}

\* the connections as (fromBlockId, fromOutputId, toBlockId)
Wires(conns) ==
  {<<conns[i].fromBlockId, conns[i].fromOutputId, conns[i].toBlockId>> :
     i \in 1..Len(conns)}

\* C26: there is a connection (fromBlockId, fromOutputId, toBlockId) exactly when
\* the nextBlockId of that block, of that choice or of that condition is set and
\* is toBlockId.
C26_ConnectionsInSync == Wires(connections) = Successors(blocks)

\* C27: no two blocks of the list have the same id.
C27_IdsUnique ==
  \A i \in 1..Len(blocks), j \in 1..Len(blocks) : i # j => blocks[i].id # blocks[j].id


(***************************************************************************)
(* Export and import.                                                      *)
(***************************************************************************)
\* the preview before its first run, on a shared store
IdlePanel(store) ==
  [messages |-> <<>>, currentBlockId |-> "", isWaitingForInput |-> FALSE,
   currentChoices |-> <<>>, sessionVariables |-> Store({}), isRunning |-> FALSE,
   timers |-> {}, variables |-> store, path |-> <<>>]

\* a run driven to its end: every pending timer runs, and each time the run waits
\* for a text the next of the inputs is sent
RECURSIVE Run(_, _, _, _)
Run(p, bs, inputs, steps) ==
  IF steps = 0 THEN p
  ELSE IF p.timers # {}
       THEN Run(runTimer(p, bs, CHOOSE t \in p.timers : TRUE), bs, inputs, steps - 1)
  ELSE IF p.isWaitingForInput /\ inputs # <<>>
       THEN Run(handleSendMessage(p, bs, Head(inputs)), bs, Tail(inputs), steps - 1)
  ELSE p

MaxRunSteps == 8

\* the transcript and the final state of the run that starts on bs and store
Outcome(bs, store, inputs) ==
  LET r == Run(startChat(IdlePanel(store), bs), bs, inputs, MaxRunSteps) IN
    [messages |-> r.messages, isRunning |-> r.isRunning,
     isWaitingForInput |-> r.isWaitingForInput, currentChoices |-> r.currentChoices]

RunInputs == {<<>>} \cup {<<text>> : text \in ProjectTexts}

\* C28: the project that importing an export leaves gives, for the same inputs, a
\* run with the same transcript and the same final state as the project that was
\* exported.
C28_RoundTrip ==
  [][lastOp'.op = "importJSON"
       => \A inputs \in RunInputs :
            Outcome(blocks', variables', inputs) = Outcome(blocks, variables, inputs)]_vars


(***************************************************************************)
(* The greeting scenario.                                                  *)
(***************************************************************************)
AdaText == <<"A", "d", "a">>
Greeted == ChatMessage("bot", HiText)
Asked == ChatMessage("bot", AskText)
Answered == ChatMessage("user", AdaText)
Farewell == ChatMessage("bot", <<"B", "y", "e", " ">> \o AdaText)

\* store holds name as a text variable without a value
NameUnset(store) ==
  VarName \in DOMAIN store /\ store[VarName] = Variable(VarName, "string", JsNull)

\* startChat on the greeting with name unset shows "Hi {{name}}" and goes on
C29_Start ==
  (lastOp'.op = "startChat" /\ blocks = GreetingGraph /\ NameUnset(variables))
    => /\ messages' = <<Greeted>>
       /\ NameUnset(sessionVariables')
       /\ RunState' = "Running"

\* the answer Ada is shown as a user entry and stored, the earlier entries stay
C29_Answer ==
  (/\ lastOp'.op = "handleSendMessage"
   /\ ~lastOp'.returned
   /\ lastOp'.text = AdaText
   /\ blocks = GreetingGraph
   /\ NameUnset(sessionVariables))
    => /\ messages = <<Greeted, Asked>>
       /\ messages' = <<Greeted, Asked, Answered>>
       /\ sessionVariables'[VarName] = Variable(VarName, "string", JsStr(AdaText))
       /\ RunState' = "Running"

\* the End block then says "Bye Ada" and the run is over, without an error entry
C29_End ==
  (/\ lastOp'.op = "timer"
   /\ blocks = GreetingGraph
   /\ messages = <<Greeted, Asked, Answered>>
   /\ VarName \in DOMAIN sessionVariables
   /\ sessionVariables[VarName] = Variable(VarName, "string", JsStr(AdaText)))
    => /\ messages' = <<Greeted, Asked, Answered, Farewell>>
       /\ RunState' = "Finished"
       /\ Ended'

\* C29: on Message("Hi {{name}}") -> OpenQuestion("Name?", name) -> End("Bye
\* {{name}}") with name a text variable without a value, startChat leads to the
\* run waiting for a text with the transcript bot "Hi {{name}}", bot "Name?" (no
\* user entry); the answer Ada then appends user "Ada" and, after it, bot "Bye
\* Ada", and the run is finished without an error; "Hi {{name}}" stays as it is.
C29_Greeting ==
  /\ [][C29_Start /\ C29_Answer /\ C29_End]_vars
  /\ (lastOp.op = "startChat" /\ blocks = GreetingGraph /\ NameUnset(sessionVariables))
       ~> (RunState = "AwaitingTextInput" /\ messages = <<Greeted, Asked>>)

C29_Witness ==
  /\ blocks = GreetingGraph
  /\ lastOp.op = "timer"
  /\ messages = <<Greeted, Asked, Answered, Farewell>>
  /\ RunState = "Finished"


(***************************************************************************)
(* What a step of the preview leaves alone.                                *)
(***************************************************************************)
InterpreterOps == {"startChat", "handleSendMessage", "handleChoiceClick", "timer"}

\* the types of the blocks the step that has just been taken processed
ProcessedTypes(path) == {FindBlock(blocks, path[i]).type : i \in 1..Len(path)}

\* the step stores a text answer: the run waits at an open question with a
\* variable name
StoresAnswer ==
  /\ lastOp'.op = "handleSendMessage"
  /\ ~lastOp'.returned
  /\ currentBlockId \in BlockIds(blocks)
  /\ FindBlock(blocks, currentBlockId).type = "openQuestion"
  /\ FindBlock(blocks, currentBlockId).variableName # <<>>

\* C30: a step of the preview (startChat, a block that is processed, an answer, a
\* click on a choice) leaves blocks and connections as they are; and unless it
\* processes a setVariable or math block or stores a text answer, it leaves the
\* shared store and the session's variables (at startChat: the copy of the shared
\* store the run starts from) as they are.
C30_InterpreterFrame ==
  [][lastOp'.op \in InterpreterOps
       => /\ blocks' = blocks
          /\ connections' = connections
          /\ (ProcessedTypes(lastOp'.path) \cap {"setVariable", "math"} = {}
              /\ ~StoresAnswer)
               => /\ variables' = variables
                  /\ sessionVariables' = IF lastOp'.op = "startChat" THEN variables
                                         ELSE sessionVariables]_vars

\* a click on a choice in a run whose session holds a variable, then the End block
C30_Witness ==
  /\ lastOp.op = "timer"
  /\ FindBlock(blocks, lastOp.id).type = "end"
  /\ Ended
  /\ DOMAIN sessionVariables # {}
  /\ \E i \in 1..Len(messages) : messages[i].type = "user"
  /\ \E i \in 1..Len(blocks) : blocks[i].type = "choiceQuestion"


(***************************************************************************)
(* Starting again.                                                         *)
(***************************************************************************)
\* the first block of type message, or the first block when there is none
EntryBlock(bs) ==
  LET messageAt == {i \in 1..Len(bs) : bs[i].type = "message"} IN
    IF messageAt = {} THEN bs[1]
    ELSE bs[CHOOSE i \in messageAt : \A j \in messageAt : i <= j]

StartableStates == {"Idle", "AwaitingTextInput", "AwaitingChoice", "Finished"}

\* what startChat makes of the panel r0: nothing of the transcript, of the input
\* awaited, of the choices shown or of the session of r0 is left (the result is
\* the one of the first start on the same shared store), the session holds the
\* variables of the shared store, and the first block processed is the entry block
Recovers(r0) ==
  LET r == startChat(r0, blocks) IN
    /\ r = startChat(IdlePanel(variables), blocks)
    /\ DOMAIN r.sessionVariables = DOMAIN variables
    /\ r.isRunning \/ Len(r.path) > 0
    /\ blocks = <<>> => r.messages = <<ErrorEntry(ErrNoBlocks)>> /\ r.path = <<>>
    /\ blocks # <<>>
         => /\ r.path # <<>>
            /\ r.path[1] = EntryBlock(blocks).id
            /\ EntryBlock(blocks).type \in {"message", "openQuestion", "choiceQuestion"}
                 => /\ r.currentBlockId = EntryBlock(blocks).id
                    /\ r.messages # <<>>
                    /\ r.messages[1] =
                         ChatMessage("bot", interpolateText(EntryBlock(blocks).content,
                                                            variables))
                    /\ \A i \in 1..Len(r.messages) : r.messages[i].type # "user"
                    /\ r.sessionVariables = variables

\* C31: startChat, from the state before the first run, from a run that waits for
\* a text or a choice, and from a run that has ended with or without an error,
\* leaves the state the first start on the current shared store leaves: transcript
\* of the new run only, no input awaited and no choice shown but those of the new
\* run, the session copied from the shared store, processing begun at the first
\* message block or, without one, at the first block; and this is the state a click
\* on the start button leads to.
C31_StartRecovers ==
  /\ [](RunState \in StartableStates => Recovers(Panel))
  /\ [][lastOp'.op = "startChat"
          => /\ RunState \in StartableStates
             /\ LET r == startChat(Panel, blocks) IN
                  /\ messages' = r.messages
                  /\ currentBlockId' = r.currentBlockId
                  /\ isWaitingForInput' = r.isWaitingForInput
                  /\ currentChoices' = r.currentChoices
                  /\ sessionVariables' = r.sessionVariables
                  /\ isRunning' = r.isRunning]_vars

\* a second start, after a run that has written n and ended, on a graph whose
\* entry block is not its first block
C31_Witness ==
  /\ lastOp.op = "startChat"
  /\ Len(blocks) = 2
  /\ blocks[1].type = "setVariable"
  /\ blocks[2].type = "message"
  /\ VarN \in DOMAIN variables
  /\ variables[VarN].type = "number"
  /\ variables[VarN].value.k = "str"
  /\ messages = <<ChatMessage("bot", interpolateText(blocks[2].content, variables))>>
  /\ currentBlockId = blocks[2].id


(***************************************************************************)
(* Where a run stops.                                                      *)
(***************************************************************************)
\* the ids a block names as successors
SuccessorIds(b) ==
  ({b.nextBlockId} \cup {b.choices[i].nextBlockId : i \in 1..Len(b.choices)}
                   \cup {b.conditions[i].nextBlockId : i \in 1..Len(b.conditions)})
    \ {""}

\* the ids reached from the blocks with an id of ids in at most n steps
RECURSIVE ReachedIn(_, _, _)
ReachedIn(bs, ids, n) ==
  IF n = 0 THEN {}
  ELSE LET next == UNION {SuccessorIds(bs[i]) : i \in {i \in 1..Len(bs) : bs[i].id \in ids}}
       IN next \cup ReachedIn(bs, next, n - 1)

\* no block of bs is reached from itself
Acyclic(bs) == \A i \in 1..Len(bs) : bs[i].id \notin ReachedIn(bs, {bs[i].id}, Len(bs))

\* C32: a run started on a graph that has a block and no cycle comes to wait for a
\* text, to wait for a choice, or to its end (it is no longer running); and it waits
\* for a text only at an open question, for a choice only at a choice question that
\* has a choice.
C32_RunComesToRest ==
  /\ (lastOp.op = "startChat" /\ blocks # <<>> /\ Acyclic(blocks))
       ~> (~isRunning \/ RunState \in {"AwaitingTextInput", "AwaitingChoice"})
  /\ [](RunState = "AwaitingTextInput"
          => /\ currentBlockId \in BlockIds(blocks)
             /\ FindBlock(blocks, currentBlockId).type = "openQuestion")
  /\ [](RunState = "AwaitingChoice"
          => /\ currentBlockId \in BlockIds(blocks)
             /\ FindBlock(blocks, currentBlockId).type = "choiceQuestion"
             /\ Len(FindBlock(blocks, currentBlockId).choices) > 0)


(***************************************************************************)
(* Replaying a run.                                                        *)
(***************************************************************************)
\* an external event: a text sent, or a click on the i-th choice button
TextEvent(text) == [kind |-> "text", text |-> text, index |-> 0]
ChoiceEvent(i) == [kind |-> "choice", text |-> <<>>, index |-> i]
Events == {TextEvent(text) : text \in {<<"A", "d", "a">>, <<" ", "7", " ">>}}
          \cup {ChoiceEvent(i) : i \in 1..2}
EventSeqs ==
  {<<>>} \cup {<<e>> : e \in Events} \cup {<<e, f>> : e \in Events, f \in Events}

\* the panel can take the event: the input field or the choice button is rendered
Accepts(p, e) ==
  IF e.kind = "text" THEN p.isWaitingForInput ELSE e.index \in 1..Len(p.currentChoices)

Deliver(p, bs, e) ==
  IF e.kind = "text" THEN handleSendMessage(p, bs, e.text)
  ELSE handleChoiceClick(p, bs, p.currentChoices[e.index])

\* what is seen of a run: transcript, variables, and the state it is in
Seen(p) ==
  [messages |-> p.messages, sessionVariables |-> p.sessionVariables,
   variables |-> p.variables, currentBlockId |-> p.currentBlockId,
   isRunning |-> p.isRunning, isWaitingForInput |-> p.isWaitingForInput,
   currentChoices |-> p.currentChoices, pending |-> p.timers # {}]

\* what the runs from p that are fed events can come to in at most steps steps,
\* whichever of the pending callbacks runs first and whether the next event comes
\* before or after it
RECURSIVE Replays(_, _, _, _)
Replays(p, bs, events, steps) ==
  LET byTimer == UNION {Replays(runTimer(p, bs, t), bs, events, steps - 1) : t \in p.timers}
      byEvent == IF events # <<>> /\ Accepts(p, Head(events))
                 THEN Replays(Deliver(p, bs, Head(events)), bs, Tail(events), steps - 1)
                 ELSE {}
  IN IF steps = 0 \/ (p.timers = {} /\ (events = <<>> \/ ~Accepts(p, Head(events))))
     THEN {Seen(p)}
     ELSE byTimer \cup byEvent

\* C33: the runs started on one graph and one shared store that are fed one
\* sequence of texts and choices come to one transcript, one set of variable
\* values and one state, whenever the events arrive; and no two callbacks are ever
\* pending, so that no order among them is left open.
C33_Replayable ==
  /\ [](Cardinality(timers) <= 1)
  /\ [][lastOp'.op = "startChat"
          => \A events \in EventSeqs :
               Cardinality(Replays(startChat(Panel, blocks), blocks, events,
                                   MaxRunSteps)) = 1]_vars

\* a start on a choice question: a click and the callback it schedules will follow
C33_Witness ==
  /\ lastOp.op = "startChat"
  /\ Len(currentChoices) = 2
  /\ Cardinality(Replays(Panel, blocks, <<ChoiceEvent(2), TextEvent(<<"A", "d", "a">>)>>,
                         MaxRunSteps)) = 1
  /\ \E r \in Replays(Panel, blocks, <<ChoiceEvent(2)>>, MaxRunSteps) :
       Len(r.messages) > Len(messages) + 1


(***************************************************************************)
(* The transcript of a run.                                                *)
(***************************************************************************)
IsPrefix(a, b) == Len(a) <= Len(b) /\ SubSeq(b, 1, Len(a)) = a

\* C34: every step but startChat leaves the transcript as it is or appends to it;
\* the entries it holds stay where and what they are.
C34_AppendOnly ==
  [][lastOp'.op # "startChat" => IsPrefix(messages, messages')]_vars

\* a run that has shown a text, taken an answer and shown an error after it
C34_Witness ==
  /\ Len(messages) >= 3
  /\ messages[1].type = "bot"
  /\ \E i \in 2..Len(messages) : messages[i].type = "user"
  /\ messages[Len(messages)] = ErrorEntry(ErrMissingTarget)


(***************************************************************************)
(* A condition whose first true branch leads nowhere.                      *)
(***************************************************************************)
\* C35: a condition block whose first true condition has no nextBlockId, or one
\* that names no block of the graph, appends the "target not found" error and ends
\* the run, whatever the conditions after it; and the "no condition satisfied"
\* error is appended by a condition block only when none of its conditions is true.
C35_FirstTrueBranchMissing ==
  [][LET path == lastOp'.path
         store == IF lastOp'.op = "startChat" THEN variables ELSE sessionVariables
         base == IF lastOp'.op = "startChat" THEN <<>> ELSE messages
     IN \A k \in 1..Len(path) :
          LET c == FindBlock(blocks, path[k])
              holding == TrueBranches(c, store)
              next == c.conditions[Lowest(holding)].nextBlockId
          IN c.type = "condition" =>
               /\ (holding # {} /\ (next = "" \/ MissingNext(next)))
                    => /\ k = Len(path)
                       /\ messages' = Append(base, ErrorEntry(ErrMissingTarget))
                       /\ Ended'
               /\ (k = Len(path) /\ messages' = Append(base, ErrorEntry(ErrNoCondition)))
                    => holding = {}]_vars


(***************************************************************************)
(* A run while the graph is edited.                                        *)
(***************************************************************************)
\* C36: the blocks a callback processes (the step takes a callback off the pending
\* ones) are blocks of the graph as it is when the callback runs: each is in the
\* list, and the text shown for the first of them (a message, a question or an end
\* with a text) is the text that block has now.
C36_ProcessesCurrentGraph ==
  [][(lastOp'.op = "timer" /\ timers' # timers /\ lastOp'.path # <<>>)
       => /\ \A k \in 1..Len(lastOp'.path) : lastOp'.path[k] \in BlockIds(blocks)
          /\ LET b == FindBlock(blocks, lastOp'.path[1]) IN
               (b.type \in {"message", "openQuestion", "choiceQuestion", "end"}
                /\ b.content # <<>>)
                 => /\ Len(messages') > Len(messages)
                    /\ messages'[Len(messages) + 1] =
                         ChatMessage("bot", interpolateText(b.content, sessionVariables))]_vars


(***************************************************************************)
(* Callbacks of an earlier run.                                            *)
(***************************************************************************)
\* C37: no callback of an earlier run is pending when startChat is called: the
\* start button is rendered only when no callback is pending, so the callbacks
\* pending after startChat are the ones it has scheduled itself, a callback runs
\* only while the run that scheduled it is running, and the transcript startChat
\* leaves is the one of a first start.
C37_NoStaleCallback ==
  /\ [](StartButtonShown => timers = {})
  /\ [][lastOp'.op = "startChat"
          => /\ timers = {}
             /\ timers' = startChat(IdlePanel(variables), blocks).timers
             /\ messages' = startChat(IdlePanel(variables), blocks).messages]_vars
  /\ [][(lastOp'.op = "timer" /\ timers' # timers)
          => /\ isRunning
             /\ timers' \subseteq runTimer(Panel, blocks, CHOOSE t \in timers : TRUE).timers]_vars

\* a second start, after a run whose callbacks have run, with a callback of its own
C37_Witness ==
  /\ lastOp.op = "startChat"
  /\ Len(blocks) = 2
  /\ blocks[1].type = "message"
  /\ blocks[2].type = "setVariable"
  /\ VarN \in DOMAIN variables
  /\ variables[VarN].type = "number"
  /\ variables[VarN].value.k = "str"
  /\ Cardinality(timers) = 1
  /\ Len(messages) = 1


(***************************************************************************)
(* The pause flags.                                                        *)
(***************************************************************************)
\* the panel waits for a text answer to the open question named by
\* currentBlockId, whose text is the last entry of the transcript
AwaitsAnswerOfCurrentBlock ==
  /\ currentBlockId \in BlockIds(blocks)
  /\ FindBlock(blocks, currentBlockId).type = "openQuestion"
  /\ messages # <<>>
  /\ messages[Len(messages)] =
       ChatMessage("bot", interpolateText(FindBlock(blocks, currentBlockId).content,
                                          sessionVariables))

\* C38: the pause flags are consistent in every reachable state: the panel never
\* waits for a text answer while it shows choices, it does neither when no run is
\* going on, and while it waits for a text answer currentBlockId names the open
\* question of the graph whose text was appended last.
C38_PauseFlagsConsistent ==
  /\ ~(isWaitingForInput /\ currentChoices # <<>>)
  /\ ~isRunning => (~isWaitingForInput /\ currentChoices = <<>>)
  /\ isWaitingForInput => AwaitsAnswerOfCurrentBlock


(***************************************************************************)
(* The ids of the transcript.                                              *)
(***************************************************************************)
\* C39: the ids of the entries of the transcript are pairwise distinct, two
\* entries pushed by the same handler at the same clock value included.
C39_EntryIdsDistinct ==
  \A i, j \in DOMAIN messages : i # j => messages[i].id # messages[j].id


(***************************************************************************)
(* The connect gesture.                                                    *)
(***************************************************************************)
\* no block of bs names itself as a successor
NoSelfLoop(bs) == \A i \in DOMAIN bs : bs[i].id \notin SuccessorIds(bs[i])

\* the connections that leave output fromOutputId of block fromBlockId
WiresOf(conns, fromBlockId, fromOutputId) ==
  SelectSeq(conns, LAMBDA c : c.fromBlockId = fromBlockId /\ c.fromOutputId = fromOutputId)

\* at most one connection leaves each output
OneWirePerOutput(conns) ==
  \A i \in DOMAIN conns :
    Len(WiresOf(conns, conns[i].fromBlockId, conns[i].fromOutputId)) = 1

\* C40: the connect gesture creates no self-loop and keeps at most one
\* connection per output: a click on the input of the block the gesture started
\* from cancels it and leaves blocks and connections as they are; a connection
\* made from an output that has one takes its place; in every state at most one
\* connection leaves each output and no block names itself as a successor.
C40_ConnectGesture ==
  /\ [](NoSelfLoop(blocks) /\ OneWirePerOutput(connections))
  /\ [][\A id \in BlockIds(blocks) :
          HandleInputClick(id) =>
            /\ connectingFrom'.blockId = ""
            /\ connectingFrom.blockId = id => (blocks' = blocks /\ connections' = connections)
            /\ connections' # connections =>
                 /\ WiresOf(connections', connectingFrom.blockId, connectingFrom.outputId)
                      = <<connections'[Len(connections')]>>
                 /\ connections'[Len(connections')].toBlockId = id
                 /\ id # connectingFrom.blockId
                 /\ \A i \in DOMAIN connections :
                      (\E j \in DOMAIN connections' : connections'[j] = connections[i])
                        \/ (/\ connections[i].fromBlockId = connectingFrom.blockId
                            /\ connections[i].fromOutputId = connectingFrom.outputId)]_vars

\* the gesture has connected both outputs of a choice question, the second one
\* to b2 at clock value 0 and the first one to b3 at clock value 1, and no
\* connection is pending
C40_Witness ==
  /\ connectingFrom.blockId = ""
  /\ blocks[1].type = "choiceQuestion"
  /\ blocks[1].choices[1].nextBlockId = "b3"
  /\ blocks[1].choices[2].nextBlockId = "b2"
  /\ Len(connections) = 2
  /\ connections[1] = Connection("conn_0", "b1", ChoiceIds[2], "b2")
  /\ connections[2] = Connection("conn_1", "b1", ChoiceIds[1], "b3")

=============================================================================
